---- MODULE Spec2Model ----
(***************************************************************************)
(* Model of the duckdb-httpd-log extension: the LogFormat compiler         *)
(* (tokenizer, collision resolution, regex emission, schema), the line     *)
(* extractor, and the per-file scan.                                       *)
(*                                                                         *)
(* A C++ std::string is a sequence of one-character strings; positions are *)
(* 0-based as in the code (At, SubStr, Find take 0-based positions).       *)
(***************************************************************************)
EXTENDS Integers, Sequences, FiniteSets, TLC

\* ------------------------------------------------------------------------
\* std::string helpers
\* ------------------------------------------------------------------------
NPOS == -1

NUL == "NUL"

Min(a, b) == IF a < b THEN a ELSE b

\* s[i]; reading s[s.length()] yields the terminating '\0'
At(s, i) == IF i < Len(s) THEN s[i + 1] ELSE NUL

\* s.substr(pos, n), pos <= s.length(); the count is clamped to the end
SubStr(s, pos, n) == SubSeq(s, pos + 1, Min(pos + n, Len(s)))

\* s.substr(pos)
SubStrFrom(s, pos) == SubSeq(s, pos + 1, Len(s))

\* s.find(c, from)
Find(s, c, from) ==
    LET hits == {i \in from..(Len(s) - 1) : s[i + 1] = c}
    IN  IF hits = {} THEN NPOS ELSE CHOOSE i \in hits : \A j \in hits : i <= j

IsDigit(c) == c \in {"0", "1", "2", "3", "4", "5", "6", "7", "8", "9"}

UpperToLower ==
    [c \in {"A","B","C","D","E","F","G","H","I","J","K","L","M","N","O","P","Q","R","S","T","U","V","W","X","Y","Z"} |->
       CASE c = "A" -> "a" [] c = "B" -> "b" [] c = "C" -> "c" [] c = "D" -> "d" [] c = "E" -> "e"
         [] c = "F" -> "f" [] c = "G" -> "g" [] c = "H" -> "h" [] c = "I" -> "i" [] c = "J" -> "j"
         [] c = "K" -> "k" [] c = "L" -> "l" [] c = "M" -> "m" [] c = "N" -> "n" [] c = "O" -> "o"
         [] c = "P" -> "p" [] c = "Q" -> "q" [] c = "R" -> "r" [] c = "S" -> "s" [] c = "T" -> "t"
         [] c = "U" -> "u" [] c = "V" -> "v" [] c = "W" -> "w" [] c = "X" -> "x" [] c = "Y" -> "y"
         [] c = "Z" -> "z"]

\* ::tolower on one character
ToLowerChar(c) == IF c \in DOMAIN UpperToLower THEN UpperToLower[c] ELSE c

\* std::to_string for the small non-negative numbers the code formats
DigitChar(d) ==
    CASE d = 0 -> "0" [] d = 1 -> "1" [] d = 2 -> "2" [] d = 3 -> "3" [] d = 4 -> "4"
      [] d = 5 -> "5" [] d = 6 -> "6" [] d = 7 -> "7" [] d = 8 -> "8" [] d = 9 -> "9"

RECURSIVE to_string(_)
to_string(n) == IF n < 10 THEN <<DigitChar(n)>> ELSE to_string(n \div 10) \o <<DigitChar(n % 10)>>

\* ------------------------------------------------------------------------
\* Directive catalog
\* ------------------------------------------------------------------------
Def(d, name, ty, suffix, prio) ==
    [directive |-> d, column_name |-> name, type |-> ty,
     collision_suffix |-> suffix, collision_priority |-> prio]

directive_definitions ==
  <<
     Def(<<"%","h">>, <<"c","l","i","e","n","t","_","i","p">>, "VARCHAR", <<>>, 0),
     Def(<<"%","a">>, <<"r","e","m","o","t","e","_","i","p">>, "VARCHAR", <<>>, 0),
     Def(<<"%","A">>, <<"l","o","c","a","l","_","i","p">>, "VARCHAR", <<>>, 0),
     Def(<<"%","l">>, <<"i","d","e","n","t">>, "VARCHAR", <<>>, 0),
     Def(<<"%","u">>, <<"a","u","t","h","_","u","s","e","r">>, "VARCHAR", <<>>, 0),
     Def(<<"%","t">>, <<"t","i","m","e","s","t","a","m","p">>, "TIMESTAMP", <<>>, 0),
     Def(<<"%",">","r">>, <<"r","e","q","u","e","s","t">>, "VARCHAR", <<>>, 0),
     Def(<<"%","r">>, <<"r","e","q","u","e","s","t">>, "VARCHAR", <<"_","o","r","i","g","i","n","a","l">>, 1),
     Def(<<"%","<","r">>, <<"r","e","q","u","e","s","t">>, "VARCHAR", <<"_","o","r","i","g","i","n","a","l">>, 1),
     Def(<<"%","m">>, <<"m","e","t","h","o","d">>, "VARCHAR", <<>>, 0),
     Def(<<"%",">","U">>, <<"p","a","t","h">>, "VARCHAR", <<>>, 0),
     Def(<<"%","U">>, <<"p","a","t","h">>, "VARCHAR", <<"_","o","r","i","g","i","n","a","l">>, 1),
     Def(<<"%","<","U">>, <<"p","a","t","h">>, "VARCHAR", <<"_","o","r","i","g","i","n","a","l">>, 1),
     Def(<<"%","q">>, <<"q","u","e","r","y","_","s","t","r","i","n","g">>, "VARCHAR", <<>>, 0),
     Def(<<"%","H">>, <<"p","r","o","t","o","c","o","l">>, "VARCHAR", <<>>, 0),
     Def(<<"%","p">>, <<"s","e","r","v","e","r","_","p","o","r","t">>, "INTEGER", <<>>, 0),
     Def(<<"%","k">>, <<"k","e","e","p","a","l","i","v","e","_","c","o","u","n","t">>, "INTEGER", <<>>, 0),
     Def(<<"%","X">>, <<"c","o","n","n","e","c","t","i","o","n","_","s","t","a","t","u","s">>, "VARCHAR", <<>>, 0),
     Def(<<"%","P">>, <<"p","r","o","c","e","s","s","_","i","d">>, "INTEGER", <<>>, 0),
     Def(<<"%",">","D">>, <<"d","u","r","a","t","i","o","n">>, "INTERVAL", <<>>, 0),
     Def(<<"%","D">>, <<"d","u","r","a","t","i","o","n">>, "INTERVAL", <<"_","o","r","i","g","i","n","a","l">>, 1),
     Def(<<"%","<","D">>, <<"d","u","r","a","t","i","o","n">>, "INTERVAL", <<"_","o","r","i","g","i","n","a","l">>, 1),
     Def(<<"%",">","T">>, <<"d","u","r","a","t","i","o","n">>, "INTERVAL", <<>>, 0),
     Def(<<"%","T">>, <<"d","u","r","a","t","i","o","n">>, "INTERVAL", <<"_","o","r","i","g","i","n","a","l">>, 1),
     Def(<<"%","<","T">>, <<"d","u","r","a","t","i","o","n">>, "INTERVAL", <<"_","o","r","i","g","i","n","a","l">>, 1),
     Def(<<"%",">","s">>, <<"s","t","a","t","u","s">>, "INTEGER", <<>>, 0),
     Def(<<"%","s">>, <<"s","t","a","t","u","s">>, "INTEGER", <<"_","o","r","i","g","i","n","a","l">>, 1),
     Def(<<"%","<","s">>, <<"s","t","a","t","u","s">>, "INTEGER", <<"_","o","r","i","g","i","n","a","l">>, 1),
     Def(<<"%","v">>, <<"s","e","r","v","e","r","_","n","a","m","e">>, "VARCHAR", <<>>, 0),
     Def(<<"%","V">>, <<"s","e","r","v","e","r","_","n","a","m","e">>, "VARCHAR", <<"_","u","s","e","d">>, 1),
     Def(<<"%","B">>, <<"b","y","t","e","s">>, "BIGINT", <<>>, 0),
     Def(<<"%","b">>, <<"b","y","t","e","s">>, "BIGINT", <<>>, 0),
     Def(<<"%","I">>, <<"b","y","t","e","s","_","r","e","c","e","i","v","e","d">>, "BIGINT", <<>>, 0),
     Def(<<"%","O">>, <<"b","y","t","e","s","_","s","e","n","t">>, "BIGINT", <<>>, 0),
     Def(<<"%","S">>, <<"b","y","t","e","s","_","t","r","a","n","s","f","e","r","r","e","d">>, "BIGINT", <<>>, 0),
     Def(<<"%","f">>, <<"f","i","l","e","n","a","m","e">>, "VARCHAR", <<>>, 0),
     Def(<<"%","L">>, <<"r","e","q","u","e","s","t","_","l","o","g","_","i","d">>, "VARCHAR", <<>>, 0),
     Def(<<"%","R">>, <<"h","a","n","d","l","e","r">>, "VARCHAR", <<>>, 0),
     Def(<<"%","i">>, <<>>, "VARCHAR", <<"_","i","n">>, 2),
     Def(<<"%","o">>, <<>>, "VARCHAR", <<"_","o","u","t">>, 3),
     Def(<<"%","C">>, <<>>, "VARCHAR", <<"_","c","o","o","k","i","e">>, 4),
     Def(<<"%","e">>, <<>>, "VARCHAR", <<"_","e","n","v">>, 5),
     Def(<<"%","n">>, <<>>, "VARCHAR", <<"_","n","o","t","e">>, 6),
     Def(<<"%","^","t","i">>, <<>>, "VARCHAR", <<"_","t","r","a","i","l","_","i","n">>, 7),
     Def(<<"%","^","t","o">>, <<>>, "VARCHAR", <<"_","t","r","a","i","l","_","o","u","t">>, 8)
  >>

HeaderRule(h, ty, req, resp) ==
    [header_name |-> h, type |-> ty, applies_to_request |-> req, applies_to_response |-> resp]

typed_header_rules ==
  <<
     HeaderRule(<<"c","o","n","t","e","n","t","-","l","e","n","g","t","h">>, "BIGINT", TRUE, TRUE),
     HeaderRule(<<"a","g","e">>, "INTEGER", FALSE, TRUE),
     HeaderRule(<<"m","a","x","-","f","o","r","w","a","r","d","s">>, "INTEGER", TRUE, FALSE)
  >>

NoDef == [directive |-> <<>>, column_name |-> <<>>, type |-> "INVALID",
          collision_suffix |-> <<>>, collision_priority |-> 999]

\* directive_cache[def.directive] = &def for every catalog row: the last row wins
HasDirectiveDefinition(directive) ==
    \E i \in 1..Len(directive_definitions) : directive_definitions[i].directive = directive

GetDirectiveDefinition(directive) ==
    IF HasDirectiveDefinition(directive)
    THEN LET hits == {i \in 1..Len(directive_definitions) : directive_definitions[i].directive = directive}
         IN  directive_definitions[CHOOSE i \in hits : \A j \in hits : j <= i]
    ELSE NoDef

ToLower(s) == [i \in 1..Len(s) |-> ToLowerChar(s[i])]

AppliesTo(rule, directive) ==
    IF directive = <<"%","i">> THEN rule.applies_to_request
    ELSE IF directive = <<"%","o">> THEN rule.applies_to_response
    ELSE FALSE

GetTypedHeaderType(header_name, directive) ==
    LET header_lower == ToLower(header_name)
        hits == {i \in 1..Len(typed_header_rules) : typed_header_rules[i].header_name = header_lower}
    IN  IF hits # {} /\ AppliesTo(typed_header_rules[CHOOSE i \in hits : \A j \in hits : j <= i], directive)
        THEN typed_header_rules[CHOOSE i \in hits : \A j \in hits : j <= i].type
        ELSE "INVALID"

\* ------------------------------------------------------------------------
\* Column name and type of one directive
\* ------------------------------------------------------------------------
DynamicNameDirectives ==
    {<<"%","i">>, <<"%","o">>, <<"%","C">>, <<"%","e">>, <<"%","n">>, <<"%","^","t","i">>, <<"%","^","t","o">>}

TVariants == {<<"%","T">>, <<"%",">","T">>, <<"%","<","T">>}

DVariants == {<<"%","D">>, <<"%",">","D">>, <<"%","<","D">>}

UnitModifiers == {<<"m","s">>, <<"u","s">>, <<"s">>}

M_pid == <<"p","i","d">>

M_tid == <<"t","i","d">>

M_hextid == <<"h","e","x","t","i","d">>

M_canonical == <<"c","a","n","o","n","i","c","a","l">>

M_local == <<"l","o","c","a","l">>

M_remote == <<"r","e","m","o","t","e">>

HyphenToUnderscore(s) == [i \in 1..Len(s) |-> IF s[i] = "-" THEN "_" ELSE s[i]]

GetColumnName(directive, modifier) ==
    IF directive \in DynamicNameDirectives /\ modifier # <<>>
    THEN HyphenToUnderscore(ToLower(modifier))
    ELSE IF directive = <<"%","a">> /\ modifier = <<"c">> THEN <<"p","e","e","r","_","i","p">>
    ELSE IF directive = <<"%","h">> /\ modifier = <<"c">> THEN <<"p","e","e","r","_","h","o","s","t">>
    ELSE IF directive \in TVariants /\ modifier \in UnitModifiers
    THEN GetDirectiveDefinition(directive).column_name
    ELSE IF directive = <<"%","P">> /\ (modifier = M_pid \/ modifier = <<>>)
    THEN <<"p","r","o","c","e","s","s","_","i","d">>
    ELSE IF directive = <<"%","P">> /\ modifier = M_tid THEN <<"t","h","r","e","a","d","_","i","d">>
    ELSE IF directive = <<"%","P">> /\ modifier = M_hextid
    THEN <<"t","h","r","e","a","d","_","i","d","_","h","e","x">>
    ELSE IF directive = <<"%","p">> /\ (modifier = M_canonical \/ modifier = <<>>)
    THEN <<"s","e","r","v","e","r","_","p","o","r","t">>
    ELSE IF directive = <<"%","p">> /\ modifier = M_local THEN <<"l","o","c","a","l","_","p","o","r","t">>
    ELSE IF directive = <<"%","p">> /\ modifier = M_remote THEN <<"r","e","m","o","t","e","_","p","o","r","t">>
    ELSE IF HasDirectiveDefinition(directive) /\ GetDirectiveDefinition(directive).column_name # <<>>
    THEN GetDirectiveDefinition(directive).column_name
    ELSE <<"f","i","e","l","d","_">> \o
         (IF directive # <<>> /\ directive[1] = "%" THEN SubStrFrom(directive, 1) ELSE directive)

GetDataType(directive, modifier) ==
    IF directive \in {<<"%","i">>, <<"%","o">>}
    THEN IF modifier # <<>> /\ GetTypedHeaderType(modifier, directive) # "INVALID"
         THEN GetTypedHeaderType(modifier, directive)
         ELSE "VARCHAR"
    ELSE IF directive \in DynamicNameDirectives THEN "VARCHAR"
    ELSE IF directive \in TVariants /\ modifier \in UnitModifiers THEN "INTERVAL"
    ELSE IF directive = <<"%","P">> /\ (modifier = M_pid \/ modifier = <<>>) THEN "INTEGER"
    ELSE IF directive = <<"%","P">> /\ modifier = M_tid THEN "BIGINT"
    ELSE IF directive = <<"%","P">> /\ modifier = M_hextid THEN "VARCHAR"
    ELSE IF directive = <<"%","p">> /\ modifier \in {M_canonical, M_local, M_remote} THEN "INTEGER"
    ELSE IF HasDirectiveDefinition(directive) THEN GetDirectiveDefinition(directive).type
    ELSE "VARCHAR"

\* ------------------------------------------------------------------------
\* FormatField and the tokenizer of ParseFormatString
\* ------------------------------------------------------------------------
FormatField(directive, column_name, type, is_quoted, modifier) ==
    [directive |-> directive, column_name |-> column_name, type |-> type,
     is_quoted |-> is_quoted, modifier |-> modifier, should_skip |-> FALSE,
     skip_method |-> FALSE, skip_path |-> FALSE, skip_query_string |-> FALSE,
     skip_protocol |-> FALSE, timestamp_group_id |-> -1,
     timestamp_type |-> "APACHE_DEFAULT", strftime_format |-> <<>>,
     is_end_timestamp |-> FALSE]

M_begin == <<"b","e","g","i","n",":">>

M_end == <<"e","n","d",":">>

\* lines 478-507: timestamp format type of a %t field
SetTimestampType(field) ==
    LET modifier == field.modifier IN
    IF field.directive # <<"%","t">> THEN field
    ELSE IF modifier = <<>> THEN [field EXCEPT !.timestamp_type = "APACHE_DEFAULT"]
    ELSE IF modifier = <<"s","e","c">> THEN [field EXCEPT !.timestamp_type = "EPOCH_SEC"]
    ELSE IF modifier = <<"m","s","e","c">> THEN [field EXCEPT !.timestamp_type = "EPOCH_MSEC"]
    ELSE IF modifier = <<"u","s","e","c">> THEN [field EXCEPT !.timestamp_type = "EPOCH_USEC"]
    ELSE IF modifier = <<"m","s","e","c","_","f","r","a","c">> THEN [field EXCEPT !.timestamp_type = "FRAC_MSEC"]
    ELSE IF modifier = <<"u","s","e","c","_","f","r","a","c">> THEN [field EXCEPT !.timestamp_type = "FRAC_USEC"]
    ELSE IF SubStr(modifier, 0, 6) = M_begin
    THEN [field EXCEPT !.timestamp_type = "STRFTIME", !.strftime_format = SubStrFrom(modifier, 6),
                       !.is_end_timestamp = FALSE]
    ELSE IF SubStr(modifier, 0, 4) = M_end
    THEN [field EXCEPT !.timestamp_type = "STRFTIME", !.strftime_format = SubStrFrom(modifier, 4),
                       !.is_end_timestamp = TRUE]
    ELSE [field EXCEPT !.timestamp_type = "STRFTIME", !.strftime_format = modifier]

NewField(directive, modifier, in_quotes) ==
    SetTimestampType(FormatField(directive, GetColumnName(directive, modifier),
                                 GetDataType(directive, modifier), in_quotes, modifier))

RECURSIVE SkipStatusCodes(_, _)
SkipStatusCodes(s, p) ==
    IF p < Len(s) /\ (IsDigit(At(s, p)) \/ At(s, p) = ",") THEN SkipStatusCodes(s, p + 1) ELSE p

\* lines 417-428: position after the optional status-code condition
DirectiveStart(s, pos) ==
    IF pos + 1 < Len(s)
    THEN SkipStatusCodes(s, IF At(s, pos + 1) = "!" THEN pos + 2 ELSE pos + 1)
    ELSE pos + 1

Tok(is_field, directive, modifier, next_pos) ==
    [field |-> is_field, directive |-> directive, modifier |-> modifier, pos |-> next_pos]

\* lines 410-469: the directive at a '%' found at pos (pos + 1 < length)
NextDirective(s, pos) ==
    LET directive_start == DirectiveStart(s, pos) IN
    IF directive_start < Len(s) /\ At(s, directive_start) = "{"
    THEN LET close_pos == Find(s, "}", directive_start + 1) IN
         IF close_pos # NPOS /\ close_pos + 1 < Len(s)
         THEN LET modifier == SubStr(s, directive_start + 1, close_pos - directive_start - 1) IN
              IF At(s, close_pos + 1) = "^" /\ close_pos + 3 < Len(s)
              THEN Tok(TRUE, <<"%">> \o SubStr(s, close_pos + 1, 3), modifier, close_pos + 4)
              ELSE Tok(TRUE, <<"%", At(s, close_pos + 1)>>, modifier, close_pos + 2)
         ELSE Tok(FALSE, <<>>, <<>>, pos + 1)
    ELSE LET dir_start == IF directive_start = pos + 1 THEN pos ELSE directive_start IN
         IF dir_start + 1 < Len(s) /\ At(s, dir_start) = "%" /\ At(s, dir_start + 1) \in {">", "<"}
         THEN Tok(TRUE, SubStr(s, dir_start, 3), <<>>, dir_start + 3)
         ELSE IF directive_start > pos + 1
         THEN Tok(TRUE, <<"%", At(s, directive_start)>>, <<>>, directive_start + 1)
         ELSE Tok(TRUE, SubStr(s, pos, 2), <<>>, pos + 2)

\* lines 395-512: the tokenization loop
RECURSIVE Tokenize(_, _, _, _)
Tokenize(s, pos, in_quotes, fields) ==
    IF pos >= Len(s) THEN fields
    ELSE IF At(s, pos) = "\"" THEN Tokenize(s, pos + 1, ~in_quotes, fields)
    ELSE IF At(s, pos) = "%" /\ pos + 1 < Len(s)
    THEN LET d == NextDirective(s, pos) IN
         IF d.field
         THEN Tokenize(s, d.pos, in_quotes, Append(fields, NewField(d.directive, d.modifier, in_quotes)))
         ELSE Tokenize(s, d.pos, in_quotes, fields)
    ELSE Tokenize(s, pos + 1, in_quotes, fields)

\* ------------------------------------------------------------------------
\* ResolveColumnNameCollisions
\* Field indices are 0-based as in the code: field i is fields[i + 1].
\* ------------------------------------------------------------------------
INVALID_INDEX == -1

IsRequestLineDirective(dir) == dir \in {<<"%","r">>, <<"%",">","r">>, <<"%","<","r">>}

IsPathDirective(dir) == dir \in {<<"%","U">>, <<"%",">","U">>, <<"%","<","U">>}

HasDirective(fields, dir) == \E i \in 1..Len(fields) : fields[i].directive = dir

\* Step 0 (lines 849-885): %r variants against %m, %U, %q, %H
ResolveRequestSubColumns(fields) ==
    LET rset == {i \in 0..(Len(fields) - 1) : IsRequestLineDirective(fields[i + 1].directive)}
        r_field_idx == IF rset = {} THEN INVALID_INDEX ELSE CHOOSE i \in rset : \A j \in rset : j <= i
        has_m == HasDirective(fields, <<"%","m">>)
        has_U == \E i \in 1..Len(fields) : IsPathDirective(fields[i].directive)
        has_q == HasDirective(fields, <<"%","q">>)
        has_H == HasDirective(fields, <<"%","H">>)
    IN  IF r_field_idx = INVALID_INDEX THEN fields
        ELSE [fields EXCEPT ![r_field_idx + 1] =
                 [@ EXCEPT !.skip_method = IF has_m THEN TRUE ELSE @,
                           !.skip_path = IF has_U THEN TRUE ELSE @,
                           !.skip_query_string = IF has_q THEN TRUE ELSE @,
                           !.skip_protocol = IF has_H THEN TRUE ELSE @]]

TimestampGroup ==
    [field_indices |-> <<>>, has_epoch_component |-> FALSE, has_strftime_component |-> FALSE,
     has_plain_t |-> FALSE, has_frac_component |-> FALSE]

\* the switch that records a member's kind in its group (lines 919-935, 948-964)
SetGroupFlag(group, timestamp_type) ==
    CASE timestamp_type = "APACHE_DEFAULT" -> [group EXCEPT !.has_plain_t = TRUE]
      [] timestamp_type \in {"EPOCH_SEC", "EPOCH_MSEC", "EPOCH_USEC"} -> [group EXCEPT !.has_epoch_component = TRUE]
      [] timestamp_type \in {"FRAC_MSEC", "FRAC_USEC"} -> [group EXCEPT !.has_frac_component = TRUE]
      [] timestamp_type = "STRFTIME" -> [group EXCEPT !.has_strftime_component = TRUE]

\* every %t field a group of its own
GroupTimestamps_Singletons(fields, groups, i, current_group_id, in_timestamp_group, current_group_is_end) ==
    LET ts == {k \in 0..(Len(fields) - 1) : fields[k + 1].directive = <<"%","t">>}
        rank(k) == Cardinality({j \in ts : j < k})
    IN  [fields |-> [k \in 1..Len(fields) |->
                        IF k - 1 \in ts THEN [fields[k] EXCEPT !.timestamp_group_id = rank(k - 1)] ELSE fields[k]],
         timestamp_groups |-> [g \in 1..Cardinality(ts) |->
                                  LET k == CHOOSE k \in ts : rank(k) = g - 1
                                  IN  SetGroupFlag([TimestampGroup EXCEPT !.field_indices = <<k>>],
                                                   fields[k + 1].timestamp_type)]]

\* Step 0.5 (lines 887-975): group consecutive %t fields
RECURSIVE GroupTimestamps(_, _, _, _, _, _)
GroupTimestamps(fields, groups, i, current_group_id, in_timestamp_group, current_group_is_end) ==
    IF i >= Len(fields) THEN [fields |-> fields, timestamp_groups |-> groups]
    ELSE LET field == fields[i + 1] IN
         IF field.directive = <<"%","t">>
         THEN IF ~in_timestamp_group \/ field.is_end_timestamp # current_group_is_end
              THEN LET gid == IF in_timestamp_group THEN current_group_id + 1 ELSE current_group_id
                       group == SetGroupFlag([TimestampGroup EXCEPT !.field_indices = <<i>>],
                                             field.timestamp_type)
                   IN  GroupTimestamps([fields EXCEPT ![i + 1].timestamp_group_id = gid],
                                       Append(groups, group), i + 1, gid, TRUE, field.is_end_timestamp)
              ELSE LET last == Len(groups)
                       group == SetGroupFlag([groups[last] EXCEPT !.field_indices = Append(@, i)],
                                             field.timestamp_type)
                   IN  GroupTimestamps([fields EXCEPT ![i + 1].timestamp_group_id = current_group_id,
                                                      ![i + 1].should_skip = TRUE],
                                       [groups EXCEPT ![last] = group], i + 1, current_group_id,
                                       in_timestamp_group, current_group_is_end)
         ELSE IF in_timestamp_group
              THEN GroupTimestamps(fields, groups, i + 1, current_group_id + 1, FALSE, current_group_is_end)
              ELSE GroupTimestamps(fields, groups, i + 1, current_group_id, in_timestamp_group,
                                   current_group_is_end)

\* Step 0.6 (lines 977-1002): begin leaders become timestamp_original when an end leader exists
RenameBeginTimestamps(fields) ==
    LET leaders == {i \in 1..Len(fields) : fields[i].directive = <<"%","t">> /\ ~fields[i].should_skip}
        has_end_timestamp == \E i \in leaders : fields[i].is_end_timestamp
        has_begin_timestamp == \E i \in leaders : ~fields[i].is_end_timestamp
    IN  IF has_end_timestamp /\ has_begin_timestamp
        THEN [i \in 1..Len(fields) |->
                IF i \in leaders /\ ~fields[i].is_end_timestamp
                THEN [fields[i] EXCEPT !.column_name =
                         <<"t","i","m","e","s","t","a","m","p","_","o","r","i","g","i","n","a","l">>]
                ELSE fields[i]]
        ELSE fields

\* lines 198-217
GetDurationPriority(directive, modifier) ==
    IF directive \in DVariants THEN 0
    ELSE IF directive \in TVariants
    THEN IF modifier = <<"u","s">> THEN 1
         ELSE IF modifier = <<"m","s">> THEN 2
         ELSE IF modifier = <<"s">> THEN 4
         ELSE 3
    ELSE -1

\* ascending sequence of a set of indices
RECURSIVE SortedSeq(_)
SortedSeq(S) ==
    IF S = {} THEN <<>>
    ELSE LET m == CHOOSE x \in S : \A y \in S : x <= y IN <<m>> \o SortedSeq(S \ {m})

SkipAllBut(fields, field_indices, best_idx) ==
    [i \in 1..Len(fields) |->
        IF \E k \in 1..Len(field_indices) : field_indices[k] = i - 1 /\ field_indices[k] # best_idx
        THEN [fields[i] EXCEPT !.should_skip = TRUE]
        ELSE fields[i]]

\* the bucket's first member is kept, whatever its precision
BestDuration_KeepFirst(fields, field_indices, k, best_idx, best_priority) == field_indices[1]

\* lines 1023-1034: the highest-precision duration of a bucket
RECURSIVE BestDuration(_, _, _, _, _)
BestDuration(fields, field_indices, k, best_idx, best_priority) ==
    IF k > Len(field_indices) THEN best_idx
    ELSE LET idx == field_indices[k]
             priority == GetDurationPriority(fields[idx + 1].directive, fields[idx + 1].modifier)
         IN  IF priority >= 0 /\ (best_priority < 0 \/ priority < best_priority)
             THEN BestDuration(fields, field_indices, k + 1, idx, priority)
             ELSE BestDuration(fields, field_indices, k + 1, best_idx, best_priority)

\* lines 1048-1070 and 1084-1106: the bare directive, else the first with the equivalent modifier
BestBareOrModifier(fields, field_indices, directive, modifier) ==
    LET bare == {k \in 1..Len(field_indices) :
                    fields[field_indices[k] + 1].directive = directive /\
                    fields[field_indices[k] + 1].modifier = <<>>}
        equiv == {k \in 1..Len(field_indices) :
                    fields[field_indices[k] + 1].directive = directive /\
                    fields[field_indices[k] + 1].modifier = modifier}
    IN  IF bare # {} THEN field_indices[CHOOSE k \in bare : \A j \in bare : k <= j]
        ELSE IF equiv # {} THEN field_indices[CHOOSE k \in equiv : \A j \in equiv : k <= j]
        ELSE field_indices[1]

\* std::sort by collision_priority (lines 1157-1167).  Elements of equal priority may
\* come out in either order: tie_order says which one this build's std::sort produces.
Priority(fields, idx) ==
    IF HasDirectiveDefinition(fields[idx + 1].directive)
    THEN GetDirectiveDefinition(fields[idx + 1].directive).collision_priority
    ELSE 999

RECURSIVE SortByPriority(_, _, _)
SortByPriority(fields, S, tie_order) ==
    IF S = {} THEN <<>>
    ELSE LET Before(x, y) ==
                 \/ Priority(fields, x) < Priority(fields, y)
                 \/ /\ Priority(fields, x) = Priority(fields, y)
                    /\ IF tie_order = "stable" THEN x <= y ELSE x >= y
             m == CHOOSE x \in S : \A y \in S : Before(x, y)
         IN  <<m>> \o SortByPriority(fields, S \ {m}, tie_order)

\* lines 1172-1186: the lowest priority keeps the base name, the others get a suffix
RECURSIVE ApplySuffixes(_, _, _, _)
ApplySuffixes(fields, sorted, k, column_name) ==
    IF k > Len(sorted) THEN fields
    ELSE LET idx == sorted[k]
             has_def == HasDirectiveDefinition(fields[idx + 1].directive)
             def == GetDirectiveDefinition(fields[idx + 1].directive)
             name == IF k = 1 THEN column_name
                     ELSE IF has_def /\ def.collision_suffix # <<>>
                     THEN column_name \o def.collision_suffix
                     ELSE column_name \o <<"_">> \o to_string(Priority(fields, idx))
         IN  ApplySuffixes([fields EXCEPT ![idx + 1].column_name = name], sorted, k + 1, column_name)

\* lines 1188-1198: number the names that are still equal inside the bucket
RECURSIVE NumberDuplicates(_, _, _, _)
NumberDuplicates(fields, sorted, k, seen) ==
    IF k > Len(sorted) THEN fields
    ELSE LET idx == sorted[k]
             current_name == fields[idx + 1].column_name
             count == Cardinality({j \in 1..Len(seen) : seen[j] = current_name}) + 1
         IN  NumberDuplicates(
                 IF count > 1
                 THEN [fields EXCEPT ![idx + 1].column_name = current_name \o <<"_">> \o to_string(count)]
                 ELSE fields,
                 sorted, k + 1, Append(seen, current_name))

\* lines 1011-1199: one entry of collision_map
ResolveBucket(fields, column_name, field_indices, tie_order) ==
    IF Len(field_indices) <= 1 THEN fields
    ELSE IF column_name \in {<<"d","u","r","a","t","i","o","n">>,
                             <<"d","u","r","a","t","i","o","n","_","o","r","i","g","i","n","a","l">>}
    THEN SkipAllBut(fields, field_indices,
                    BestDuration(fields, field_indices, 1, field_indices[1],
                                 GetDurationPriority(fields[field_indices[1] + 1].directive,
                                                     fields[field_indices[1] + 1].modifier)))
    ELSE IF column_name = <<"p","r","o","c","e","s","s","_","i","d">>
    THEN SkipAllBut(fields, field_indices, BestBareOrModifier(fields, field_indices, <<"%","P">>, M_pid))
    ELSE IF column_name = <<"s","e","r","v","e","r","_","p","o","r","t">>
    THEN SkipAllBut(fields, field_indices, BestBareOrModifier(fields, field_indices, <<"%","p">>, M_canonical))
    ELSE IF column_name = <<"b","y","t","e","s">>
    THEN SkipAllBut(fields, field_indices, field_indices[1])
    ELSE IF Cardinality({fields[field_indices[k] + 1].directive : k \in 1..Len(field_indices)}) = 1
    THEN [i \in 1..Len(fields) |->
            IF \E k \in 2..Len(field_indices) : field_indices[k] = i - 1
            THEN [fields[i] EXCEPT !.column_name =
                     column_name \o <<"_">> \o
                     to_string((CHOOSE k \in 2..Len(field_indices) : field_indices[k] = i - 1) + 0)]
            ELSE fields[i]]
    ELSE LET sorted == SortByPriority(fields, {field_indices[k] : k \in 1..Len(field_indices)}, tie_order)
         IN  NumberDuplicates(ApplySuffixes(fields, sorted, 1, column_name), sorted, 1, <<>>)

\* lines 1004-1199: collision_map is keyed by the names the fields have before Step 2;
\* an entry only rewrites its own members, so the iteration order of the map is immaterial
RECURSIVE ResolveBuckets(_, _, _, _)
ResolveBuckets(fields, original, names, tie_order) ==
    IF names = {} THEN fields
    ELSE LET column_name == CHOOSE n \in names : TRUE
             field_indices == SortedSeq({i \in 0..(Len(original) - 1) : original[i + 1].column_name = column_name})
         IN  ResolveBuckets(ResolveBucket(fields, column_name, field_indices, tie_order),
                            original, names \ {column_name}, tie_order)

ResolveColumnNameCollisions(fields0, tie_order) ==
    LET grouped == GroupTimestamps(ResolveRequestSubColumns(fields0), <<>>, 0, 0, FALSE, FALSE)
        renamed == RenameBeginTimestamps(grouped.fields)
        names == {renamed[i].column_name : i \in 1..Len(renamed)}
    IN  [fields |-> ResolveBuckets(renamed, renamed, names, tie_order),
         timestamp_groups |-> grouped.timestamp_groups]

\* ------------------------------------------------------------------------
\* The regex emitted by GenerateRegexPattern.
\* A pattern is a sequence of nodes:
\*   Lit(c)                a literal character (escaped where the code escapes it)
\*   Ws                    \s+
\*   Grp(cap, atoms, f)    "(" atoms ")" when cap, "(?:" atoms ")" otherwise; f is the
\*                         index of the field the node was emitted for
\* An atom is a character class with a repetition range.
\* ------------------------------------------------------------------------
INF == 1000000

Atom(cls, c, lo, hi) == [cls |-> cls, c |-> c, min |-> lo, max |-> hi]

LitAtom(c) == Atom("lit", c, 1, 1)

Lit(c) == [k |-> "lit", c |-> c, cap |-> FALSE, atoms |-> <<LitAtom(c)>>, field |-> -1]

Ws == [k |-> "ws", c |-> " ", cap |-> FALSE, atoms |-> <<Atom("s", " ", 1, INF)>>, field |-> -1]

Grp(cap, atoms, f) == [k |-> "grp", c |-> " ", cap |-> cap, atoms |-> atoms, field |-> f]

\* lines 121-179: one strftime specifier
SpecToRegex(spec) ==
    CASE spec = <<"%","Y">> -> <<Atom("d", " ", 4, 4)>>
      [] spec \in {<<"%","y">>, <<"%","m">>, <<"%","d">>, <<"%","H">>, <<"%","I">>, <<"%","M">>, <<"%","S">>}
             -> <<Atom("d", " ", 2, 2)>>
      [] spec \in {<<"%","-","m">>, <<"%","-","d">>, <<"%","-","H">>, <<"%","-","I">>}
             -> <<Atom("d", " ", 1, 2)>>
      [] spec = <<"%","e">> -> <<Atom("sd", " ", 1, 1), Atom("d", " ", 1, 1)>>
      [] spec \in {<<"%","b">>, <<"%","h">>, <<"%","a">>} -> <<Atom("alpha", " ", 3, 3)>>
      [] spec \in {<<"%","B">>, <<"%","A">>} -> <<Atom("alpha", " ", 1, INF)>>
      [] spec = <<"%","f">> -> <<Atom("d", " ", 6, 6)>>
      [] spec = <<"%","z">> -> <<Atom("sign", " ", 1, 1), Atom("d", " ", 4, 4)>>
      [] spec = <<"%","Z">> -> <<Atom("tz", " ", 1, INF)>>
      [] spec = <<"%","T">> -> <<Atom("d", " ", 2, 2), LitAtom(":"), Atom("d", " ", 2, 2), LitAtom(":"),
                                 Atom("d", " ", 2, 2)>>
      [] spec = <<"%","R">> -> <<Atom("d", " ", 2, 2), LitAtom(":"), Atom("d", " ", 2, 2)>>
      [] spec = <<"%","j">> -> <<Atom("d", " ", 3, 3)>>
      [] spec \in {<<"%","p">>, <<"%","P">>} -> <<Atom("ampm1", " ", 1, 1), Atom("ampm2", " ", 1, 1)>>
      [] spec = <<"%","n">> -> <<LitAtom("\n")>>
      [] spec = <<"%","t">> -> <<LitAtom("\t")>>
      [] spec = <<"%","%">> -> <<LitAtom("%")>>
      [] OTHER -> <<Atom("S", " ", 1, INF)>>

\* lines 104-192
RECURSIVE StrftimeToRegex(_, _)
StrftimeToRegex(format, i) ==
    IF i >= Len(format) THEN <<>>
    ELSE IF At(format, i) = "%" /\ i + 1 < Len(format)
    THEN IF At(format, i + 1) = "-" /\ i + 2 < Len(format)
         THEN SpecToRegex(SubStr(format, i, 3)) \o StrftimeToRegex(format, i + 3)
         ELSE SpecToRegex(SubStr(format, i, 2)) \o StrftimeToRegex(format, i + 2)
    ELSE <<LitAtom(At(format, i))>> \o StrftimeToRegex(format, i + 1)

\* lines 592-612: the expression of a %t field that is not quoted
TimestampRegex(field) ==
    CASE field.timestamp_type \in {"EPOCH_SEC", "EPOCH_MSEC", "EPOCH_USEC"} -> <<Atom("d", " ", 1, INF)>>
      [] field.timestamp_type = "FRAC_MSEC" -> <<Atom("d", " ", 3, 3)>>
      [] field.timestamp_type = "FRAC_USEC" -> <<Atom("d", " ", 6, 6)>>
      [] field.timestamp_type = "STRFTIME" -> StrftimeToRegex(field.strftime_format, 0)
      [] OTHER -> <<Atom("notrbracket", " ", 1, INF)>>

\* lines 570-579: position after the directive of `field` that starts at pos
SkipDirective(format_str, pos, field) ==
    IF field.modifier # <<>>
    THEN LET close_pos == Find(format_str, "}", pos)
         IN  IF close_pos # NPOS THEN close_pos + 2 ELSE pos
    ELSE pos + Len(field.directive)

\* lines 581-630: the nodes emitted for `field`
FieldRegex(field, field_idx) ==
    IF field.is_quoted
    THEN <<Grp(~field.should_skip, <<Atom("notquote", " ", 0, INF)>>, field_idx)>>
    ELSE IF field.directive = <<"%","t">>
    THEN IF field.timestamp_type = "APACHE_DEFAULT"
         THEN <<Lit("["), Grp(TRUE, TimestampRegex(field), field_idx), Lit("]")>>
         ELSE <<Grp(TRUE, TimestampRegex(field), field_idx)>>
    ELSE <<Grp(~field.should_skip, <<Atom("S", " ", 1, INF)>>, field_idx)>>

RECURSIVE SkipBlanks(_, _)
SkipBlanks(s, pos) == IF pos < Len(s) /\ At(s, pos) \in {" ", "\t"} THEN SkipBlanks(s, pos + 1) ELSE pos

\* lines 545-657; the leading "^" is applied by the matcher
RECURSIVE GenerateRegexFrom(_, _, _, _, _)
GenerateRegexFrom(format_str, fields, pos, field_idx, pattern) ==
    IF pos >= Len(format_str) THEN pattern
    ELSE LET c == At(format_str, pos) IN
         IF c = "\"" THEN GenerateRegexFrom(format_str, fields, pos + 1, field_idx, Append(pattern, Lit("\"")))
         ELSE IF c = "%" /\ field_idx < Len(fields)
         THEN GenerateRegexFrom(format_str, fields, SkipDirective(format_str, pos, fields[field_idx + 1]),
                                field_idx + 1, pattern \o FieldRegex(fields[field_idx + 1], field_idx))
         ELSE IF c \in {" ", "\t"}
         THEN GenerateRegexFrom(format_str, fields, SkipBlanks(format_str, pos + 1), field_idx,
                                Append(pattern, Ws))
         ELSE GenerateRegexFrom(format_str, fields, pos + 1, field_idx, Append(pattern, Lit(c)))

GenerateRegexPattern(parsed_format) ==
    GenerateRegexFrom(parsed_format.original_format_str, parsed_format.fields, 0, 0, <<>>)

\* NumberOfCapturingGroups()
NumberOfCapturingGroups(pattern) == Cardinality({i \in 1..Len(pattern) : pattern[i].cap})

\* ------------------------------------------------------------------------
\* ParsedFormat and ParseFormatString
\* ------------------------------------------------------------------------
EmptyParsedFormat(format_str) ==
    [original_format_str |-> format_str, fields |-> <<>>, timestamp_groups |-> <<>>,
     regex_pattern |-> <<>>, compiled |-> FALSE]

\* lines 392-543
ParseFormatString(format_str, tie_order) ==
    CHOOSE parsed \in
        {[result EXCEPT !.regex_pattern = GenerateRegexPattern(result)] :
            result \in {[original_format_str |-> format_str, fields |-> resolved.fields,
                         timestamp_groups |-> resolved.timestamp_groups,
                         regex_pattern |-> <<>>, compiled |-> TRUE] :
                resolved \in {ResolveColumnNameCollisions(fields, tie_order) :
                    fields \in {Tokenize(format_str, 0, FALSE, <<>>)}}}} : TRUE

\* ------------------------------------------------------------------------
\* RE2 matching of an emitted pattern (greedy, leftmost-first, no alternation)
\* ------------------------------------------------------------------------
Letters ==
    (DOMAIN UpperToLower) \cup {UpperToLower[c] : c \in DOMAIN UpperToLower}

IsSpace(ch) == ch \in {" ", "\t", "\n", "\r"}

InClass(atom, ch) ==
    CASE atom.cls = "lit" -> ch = atom.c
      [] atom.cls = "s" -> IsSpace(ch)
      [] atom.cls = "S" -> ~IsSpace(ch)
      [] atom.cls = "notquote" -> ch # "\""
      [] atom.cls = "notrbracket" -> ch # "]"
      [] atom.cls = "d" -> IsDigit(ch)
      [] atom.cls = "alpha" -> ch \in Letters
      [] atom.cls = "sd" -> IsSpace(ch) \/ IsDigit(ch)
      [] atom.cls = "sign" -> ch \in {"+", "-"}
      [] atom.cls = "tz" -> ch \in Letters \cup {"/", "_"}
      [] atom.cls = "ampm1" -> ch \in {"A", "a", "P", "p"}
      [] atom.cls = "ampm2" -> ch \in {"M", "m"}

RECURSIVE FlattenAtoms(_, _)
FlattenAtoms(pattern, i) ==
    IF i > Len(pattern) THEN <<>> ELSE pattern[i].atoms \o FlattenAtoms(pattern, i + 1)

\* the number of leading characters of line from pos that atom a accepts, at most a.max
RECURSIVE RunLength(_, _, _, _)
RunLength(a, line, pos, n) ==
    IF n < a.max /\ pos + n < Len(line) /\ InClass(a, At(line, pos + n))
    THEN RunLength(a, line, pos, n + 1)
    ELSE n

\* ends[j] is the position after atom j of the match that the engine prefers;
\* anchor_end is the difference between FullMatchN and PartialMatchN under "^".
\* MatchLongest tries atom k with n repetitions, then with fewer
RECURSIVE MatchFrom(_, _, _, _, _), MatchLongest(_, _, _, _, _, _)
MatchLongest(atoms, k, line, pos, anchor_end, n) ==
    IF n < atoms[k].min THEN [ok |-> FALSE, ends |-> <<>>]
    ELSE CHOOSE m \in {IF rest.ok THEN [ok |-> TRUE, ends |-> <<pos + n>> \o rest.ends]
                       ELSE MatchLongest(atoms, k, line, pos, anchor_end, n - 1) :
                       rest \in {MatchFrom(atoms, k + 1, line, pos + n, anchor_end)}} : TRUE

MatchFrom(atoms, k, line, pos, anchor_end) ==
    IF k > Len(atoms) THEN [ok |-> (~anchor_end \/ pos = Len(line)), ends |-> <<>>]
    ELSE MatchLongest(atoms, k, line, pos, anchor_end, RunLength(atoms[k], line, pos, 0))

\* number of atoms emitted before node i
RECURSIVE AtomsBefore(_, _)
AtomsBefore(pattern, i) == IF i <= 1 THEN 0 ELSE AtomsBefore(pattern, i - 1) + Len(pattern[i - 1].atoms)

\* the text of the capturing groups, in pattern order
Captures(pattern, line, ends) ==
    LET caps == SortedSeq({i \in 1..Len(pattern) : pattern[i].cap})
        EndOf(j) == IF j = 0 THEN 0 ELSE ends[j]
    IN  [g \in 1..Len(caps) |->
            LET first == AtomsBefore(pattern, caps[g])
                last == first + Len(pattern[caps[g]].atoms)
            IN  SubSeq(line, EndOf(first) + 1, EndOf(last))]

RegexMatch(pattern, line, anchor_end) == MatchFrom(FlattenAtoms(pattern, 1), 1, line, 0, anchor_end)

\* ParseLogLine with RE2::PartialMatchN in place of RE2::FullMatchN: the pattern,
\* anchored by its "^" alone, may stop before the end of the line
ParseLogLine_PartialMatch(line, parsed_format) ==
    IF ~parsed_format.compiled THEN <<>>
    ELSE LET m == RegexMatch(parsed_format.regex_pattern, line, FALSE)
         IN  IF ~m.ok THEN <<>> ELSE Captures(parsed_format.regex_pattern, line, m.ends)

\* lines 799-836: the captures of a full match; empty on a miss or without a compiled regex
ParseLogLine(line, parsed_format) ==
    IF ~parsed_format.compiled THEN <<>>
    ELSE LET m == RegexMatch(parsed_format.regex_pattern, line, TRUE)
         IN  IF ~m.ok THEN <<>> ELSE Captures(parsed_format.regex_pattern, line, m.ends)

\* ------------------------------------------------------------------------
\* Schemas: GenerateSchema and the columns list of HttpdLogFileReader
\* ------------------------------------------------------------------------
Col(name, type) == [name |-> name, type |-> type]

N_method == <<"m","e","t","h","o","d">>

N_path == <<"p","a","t","h">>

N_query_string == <<"q","u","e","r","y","_","s","t","r","i","n","g">>

N_protocol == <<"p","r","o","t","o","c","o","l">>

N_timestamp == <<"t","i","m","e","s","t","a","m","p">>

N_timestamp_raw == <<"t","i","m","e","s","t","a","m","p","_","r","a","w">>

N_log_file == <<"l","o","g","_","f","i","l","e">>

N_line_number == <<"l","i","n","e","_","n","u","m","b","e","r">>

N_parse_error == <<"p","a","r","s","e","_","e","r","r","o","r">>

N_raw_line == <<"r","a","w","_","l","i","n","e">>

\* the sub-columns a %r variant keeps, in order
RequestColumns(field) ==
    (IF ~field.skip_method THEN <<Col(N_method, "VARCHAR")>> ELSE <<>>) \o
    (IF ~field.skip_path THEN <<Col(N_path, "VARCHAR")>> ELSE <<>>) \o
    (IF ~field.skip_query_string THEN <<Col(N_query_string, "VARCHAR")>> ELSE <<>>) \o
    (IF ~field.skip_protocol THEN <<Col(N_protocol, "VARCHAR")>> ELSE <<>>)

\* lines 665-701
RECURSIVE SchemaFields(_, _)
SchemaFields(fields, i) ==
    IF i > Len(fields) THEN <<>>
    ELSE LET field == fields[i] IN
         (IF field.should_skip THEN <<>>
          ELSE IF field.directive = <<"%","t">> THEN <<Col(field.column_name, "TIMESTAMP")>>
          ELSE IF IsRequestLineDirective(field.directive) THEN RequestColumns(field)
          ELSE <<Col(field.column_name, field.type)>>)
         \o SchemaFields(fields, i + 1)

\* lines 659-718
GenerateSchema(parsed_format, include_raw_columns) ==
    SchemaFields(parsed_format.fields, 1) \o <<Col(N_log_file, "VARCHAR")>> \o
    (IF include_raw_columns
     THEN <<Col(N_line_number, "BIGINT"), Col(N_parse_error, "BOOLEAN"), Col(N_raw_line, "VARCHAR")>>
     ELSE <<>>)

\* httpd_log_file_reader.cpp lines 321-347
RECURSIVE ReaderFields(_, _, _)
ReaderFields(fields, i, raw_mode) ==
    IF i > Len(fields) THEN <<>>
    ELSE LET field == fields[i] IN
         (IF field.should_skip THEN <<>>
          ELSE IF field.directive = <<"%","t">>
          THEN <<Col(N_timestamp, "TIMESTAMP")>> \o
               (IF raw_mode THEN <<Col(N_timestamp_raw, "VARCHAR")>> ELSE <<>>)
          ELSE IF IsRequestLineDirective(field.directive) THEN RequestColumns(field)
          ELSE <<Col(field.column_name, field.type)>>)
         \o ReaderFields(fields, i + 1, raw_mode)

\* httpd_log_file_reader.cpp lines 310-356: the columns the reader declares
ReaderColumns(parsed_format, raw_mode) ==
    ReaderFields(parsed_format.fields, 1, raw_mode) \o <<Col(N_log_file, "VARCHAR")>> \o
    (IF raw_mode THEN <<Col(N_parse_error, "BOOLEAN"), Col(N_raw_line, "VARCHAR")>> ELSE <<>>)

\* ------------------------------------------------------------------------
\* The extractor.  A cell records what one write puts into the output:
\*   column     which branch of the extractor wrote it
\*   field      index of the field it was written for (-1 for metadata columns)
\*   value_idx  index into parsed_values the branch starts from
\*   count      number of consecutive parsed_values it converts (0 on a parse error)
\*   reads      every index of parsed_values the call has read
\* ------------------------------------------------------------------------
Cell(column, field, value_idx, count, reads) ==
    [column |-> column, field |-> field, value_idx |-> value_idx, count |-> count, reads |-> reads]

RequestLabels(field) ==
    (IF ~field.skip_method THEN <<"method">> ELSE <<>>) \o
    (IF ~field.skip_path THEN <<"path">> ELSE <<>>) \o
    (IF ~field.skip_query_string THEN <<"query_string">> ELSE <<>>) \o
    (IF ~field.skip_protocol THEN <<"protocol">> ELSE <<>>)

\* httpd_log_file_reader.cpp lines 593-618: the metadata columns
WriteSpecialColumn(raw_mode, schema_col_id, current_schema_col, reads) ==
    IF current_schema_col = schema_col_id THEN Cell("log_file", -1, 0, 0, reads)
    ELSE IF raw_mode /\ current_schema_col + 1 = schema_col_id THEN Cell("parse_error", -1, 0, 0, reads)
    ELSE IF raw_mode /\ current_schema_col + 2 = schema_col_id THEN Cell("raw_line", -1, 0, 0, reads)
    ELSE Cell("none", -1, 0, 0, reads)

\* httpd_log_file_reader.cpp lines 428-591: the walk over the fields up to schema_col_id
RECURSIVE WriteColumnWalk(_, _, _, _, _, _, _, _, _)
WriteColumnWalk(parsed_format, raw_mode, schema_col_id, parse_error, field_idx, current_schema_col, value_idx, processed_ts_groups, reads) ==
    IF field_idx >= Len(parsed_format.fields)
    THEN WriteSpecialColumn(raw_mode, schema_col_id, current_schema_col, reads)
    ELSE LET field == parsed_format.fields[field_idx + 1]
             Next(col, vidx, processed, rd) ==
                 WriteColumnWalk(parsed_format, raw_mode, schema_col_id, parse_error, field_idx + 1,
                                 col, vidx, processed, rd)
         IN
         IF field.should_skip
         THEN Next(current_schema_col, IF field.directive # <<"%","t">> THEN value_idx + 1 ELSE value_idx,
                   processed_ts_groups, reads)
         ELSE IF field.directive = <<"%","t">>
         THEN LET group_id == field.timestamp_group_id IN
              IF group_id >= 0 /\ group_id \notin processed_ts_groups
              THEN LET size == Len(parsed_format.timestamp_groups[group_id + 1].field_indices)
                       used == IF parse_error THEN 0 ELSE size
                       rd == reads \cup (IF parse_error THEN {} ELSE value_idx..(value_idx + size - 1))
                   IN  IF current_schema_col = schema_col_id
                       THEN Cell("timestamp", field_idx, value_idx, used, rd)
                       ELSE IF raw_mode /\ current_schema_col + 1 = schema_col_id
                       THEN Cell("timestamp_raw", field_idx, value_idx, used, rd)
                       ELSE Next(current_schema_col + (IF raw_mode THEN 2 ELSE 1), value_idx + size,
                                 processed_ts_groups \cup {group_id}, reads)
              ELSE IF group_id < 0
              THEN LET used == IF parse_error THEN 0 ELSE 1
                       rd == reads \cup (IF parse_error THEN {} ELSE {value_idx})
                   IN  IF current_schema_col = schema_col_id
                       THEN Cell("timestamp", field_idx, value_idx, used, rd)
                       ELSE IF raw_mode /\ current_schema_col + 1 = schema_col_id
                       THEN Cell("timestamp_raw", field_idx, value_idx, used, rd)
                       ELSE Next(current_schema_col + (IF raw_mode THEN 2 ELSE 1), value_idx + 1,
                                 processed_ts_groups, reads)
              ELSE Next(current_schema_col, value_idx, processed_ts_groups, reads)
         ELSE IF IsRequestLineDirective(field.directive)
         THEN LET labels == RequestLabels(field)
                  rd == reads \cup (IF parse_error THEN {} ELSE {value_idx})
                  k == schema_col_id - current_schema_col
              IN  IF k >= 0 /\ k < Len(labels)
                  THEN Cell(labels[k + 1], field_idx, value_idx, IF parse_error THEN 0 ELSE 1, rd)
                  ELSE Next(current_schema_col + Len(labels), value_idx + 1, processed_ts_groups, rd)
         ELSE IF current_schema_col = schema_col_id
              THEN Cell("regular", field_idx, value_idx, IF parse_error THEN 0 ELSE 1,
                        reads \cup (IF parse_error THEN {} ELSE {value_idx}))
              ELSE Next(current_schema_col + 1, value_idx + 1, processed_ts_groups, reads)

\* httpd_log_file_reader.cpp lines 421-619
WriteColumnValue(parsed_format, raw_mode, schema_col_id, parse_error) ==
    WriteColumnWalk(parsed_format, raw_mode, schema_col_id, parse_error, 0, 0, 0, {}, {})

\* httpd_log_table_function.cpp lines 548-818: the cells of one row, in column order
RECURSIVE FunctionFields(_, _, _, _, _, _)
FunctionFields(parsed_format, raw_mode, parse_error, field_idx, value_idx, processed_ts_groups) ==
    IF field_idx >= Len(parsed_format.fields) THEN <<>>
    ELSE LET field == parsed_format.fields[field_idx + 1]
             used == IF parse_error THEN 0 ELSE 1
             Next(vidx, processed) ==
                 FunctionFields(parsed_format, raw_mode, parse_error, field_idx + 1, vidx, processed)
         IN
         IF field.should_skip
         THEN Next(IF field.directive # <<"%","t">> THEN value_idx + 1 ELSE value_idx, processed_ts_groups)
         ELSE IF field.directive = <<"%","t">>
         THEN LET group_id == field.timestamp_group_id IN
              IF group_id >= 0 /\ group_id \notin processed_ts_groups
              THEN LET size == Len(parsed_format.timestamp_groups[group_id + 1].field_indices)
                       n == IF parse_error THEN 0 ELSE size
                       rd == IF parse_error THEN {} ELSE value_idx..(value_idx + size - 1)
                   IN  <<Cell("timestamp", field_idx, value_idx, n, rd)>> \o
                       (IF raw_mode THEN <<Cell("timestamp_raw", field_idx, value_idx, n, rd)>> ELSE <<>>) \o
                       Next(value_idx + size, processed_ts_groups \cup {group_id})
              ELSE IF group_id < 0
              THEN <<Cell("timestamp", field_idx, value_idx, used, IF parse_error THEN {} ELSE {value_idx})>> \o
                   (IF raw_mode
                    THEN <<Cell("timestamp_raw", field_idx, value_idx, used,
                                IF parse_error THEN {} ELSE {value_idx})>>
                    ELSE <<>>) \o
                   Next(value_idx + 1, processed_ts_groups)
              ELSE IF parse_error
                   THEN <<Cell("timestamp", field_idx, value_idx, 0, {})>> \o
                        (IF raw_mode THEN <<Cell("timestamp_raw", field_idx, value_idx, 0, {})>> ELSE <<>>) \o
                        Next(value_idx, processed_ts_groups)
                   ELSE Next(value_idx, processed_ts_groups)
         ELSE IF IsRequestLineDirective(field.directive)
         THEN [k \in 1..Len(RequestLabels(field)) |->
                  Cell(RequestLabels(field)[k], field_idx, value_idx, used,
                       IF parse_error THEN {} ELSE {value_idx})] \o
              Next(value_idx + 1, processed_ts_groups)
         ELSE <<Cell("regular", field_idx, value_idx, used, IF parse_error THEN {} ELSE {value_idx})>> \o
              Next(value_idx + 1, processed_ts_groups)

\* httpd_log_table_function.cpp lines 540-843: one output row
FunctionRow(parsed_format, raw_mode, parse_error) ==
    FunctionFields(parsed_format, raw_mode, parse_error, 0, 0, {}) \o
    <<Cell("log_file", -1, 0, 0, {})>> \o
    (IF raw_mode THEN <<Cell("parse_error", -1, 0, 0, {}), Cell("raw_line", -1, 0, 0, {})>> ELSE <<>>)

\* the column a cell's branch writes: its name and the type of the value it stores
CellColumn(parsed_format, cell) ==
    CASE cell.column = "regular" ->
             Col(parsed_format.fields[cell.field + 1].column_name, parsed_format.fields[cell.field + 1].type)
      [] cell.column = "timestamp" -> Col(parsed_format.fields[cell.field + 1].column_name, "TIMESTAMP")
      [] cell.column = "timestamp_raw" -> Col(N_timestamp_raw, "VARCHAR")
      [] cell.column = "method" -> Col(N_method, "VARCHAR")
      [] cell.column = "path" -> Col(N_path, "VARCHAR")
      [] cell.column = "query_string" -> Col(N_query_string, "VARCHAR")
      [] cell.column = "protocol" -> Col(N_protocol, "VARCHAR")
      [] cell.column = "log_file" -> Col(N_log_file, "VARCHAR")
      [] cell.column = "parse_error" -> Col(N_parse_error, "BOOLEAN")
      [] cell.column = "raw_line" -> Col(N_raw_line, "VARCHAR")
      [] OTHER -> Col(<<>>, "INVALID")

\* ------------------------------------------------------------------------
\* The values the extractor stores.  A stored value is its type and its data:
\* the characters of a VARCHAR, the decimal digits (with a leading "-") of an
\* INTEGER or BIGINT, the microseconds of an INTERVAL in the same form.
\* ------------------------------------------------------------------------
Value(kind, data) == [kind |-> kind, data |-> data]

\* FlatVector::SetNull(vec, row_idx, true)
Null == Value("null", <<>>)

\* the branch stores nothing: the slot keeps what the vector held
Unwritten == Value("unwritten", <<>>)

\* a signed overflow in int64 arithmetic: the stored number is indeterminate
Indeterminate(kind) == Value(kind, <<"?">>)

DigitValue(c) == CHOOSE d \in 0..9 : DigitChar(d) = c

RECURSIVE SkipWhitespace(_, _)
SkipWhitespace(s, p) == IF p < Len(s) /\ IsSpace(At(s, p)) THEN SkipWhitespace(s, p + 1) ELSE p

RECURSIVE DigitRun(_, _)
DigitRun(s, p) == IF p < Len(s) /\ IsDigit(At(s, p)) THEN DigitRun(s, p + 1) ELSE p

RECURSIVE StripZeros(_)
StripZeros(digits) == IF Len(digits) > 1 /\ digits[1] = "0" THEN StripZeros(Tail(digits)) ELSE digits

\* a <= b for two digit strings without leading zeros
DecimalLE(a, b) ==
    \/ Len(a) < Len(b)
    \/ /\ Len(a) = Len(b)
       /\ \/ a = b
          \/ \E i \in 1..Len(a) :
                 /\ SubSeq(a, 1, i - 1) = SubSeq(b, 1, i - 1)
                 /\ DigitValue(a[i]) < DigitValue(b[i])

INT32_MAX == <<"2", "1", "4", "7", "4", "8", "3", "6", "4", "7">>

INT32_MIN == <<"2", "1", "4", "7", "4", "8", "3", "6", "4", "8">>

INT64_MAX == <<"9", "2", "2", "3", "3", "7", "2", "0", "3", "6", "8", "5", "4", "7", "7", "5", "8", "0", "7">>

INT64_MIN == <<"9", "2", "2", "3", "3", "7", "2", "0", "3", "6", "8", "5", "4", "7", "7", "5", "8", "0", "8">>

Converted(ok, data) == [ok |-> ok, data |-> data]

\* std::stoi / std::stoll: leading whitespace, an optional sign, then the longest run of
\* digits; what follows the digits is ignored.  No digit: std::invalid_argument;
\* a number outside the type: std::out_of_range.
StringToInteger(value, max, min) ==
    LET start == SkipWhitespace(value, 0)
        negative == At(value, start) = "-"
        first == IF At(value, start) \in {"+", "-"} THEN start + 1 ELSE start
        last == DigitRun(value, first)
        digits == StripZeros(SubStr(value, first, last - first))
    IN  IF last = first THEN Converted(FALSE, <<>>)
        ELSE IF ~DecimalLE(digits, IF negative THEN min ELSE max) THEN Converted(FALSE, <<>>)
        ELSE Converted(TRUE, IF negative /\ digits # <<"0">> THEN <<"-">> \o digits ELSE digits)

stoi(value) == StringToInteger(value, INT32_MAX, INT32_MIN)

stoll(value) == StringToInteger(value, INT64_MAX, INT64_MIN)

\* int_val *= 10^zeros in int64
TimesPowerOfTen(kind, data, zeros) ==
    LET negative == data[1] = "-"
        digits == IF negative THEN Tail(data) ELSE data
        product == digits \o [i \in 1..zeros |-> "0"]
    IN  IF digits = <<"0">> THEN Value(kind, data)
        ELSE IF ~DecimalLE(product, IF negative THEN INT64_MIN ELSE INT64_MAX) THEN Indeterminate(kind)
        ELSE Value(kind, (IF negative THEN <<"-">> ELSE <<>>) \o product)

bytes_columns == {<<"b", "y", "t", "e", "s">>, <<"b", "y", "t", "e", "s", "_", "c", "l", "f">>, <<"b", "y", "t", "e", "s", "_", "r", "e", "c", "e", "i", "v", "e", "d">>, <<"b", "y", "t", "e", "s", "_", "s", "e", "n", "t">>, <<"b", "y", "t", "e", "s", "_", "t", "r", "a", "n", "s", "f", "e", "r", "r", "e", "d">>}

\* httpd_log_file_reader.cpp lines 621-693
WriteRegularFieldValue(field, value) ==
    IF field.type = "VARCHAR"
    THEN IF field.directive = <<"%", "X">>
         THEN Value("VARCHAR", IF value = <<"X">> THEN <<"a", "b", "o", "r", "t", "e", "d">>
                               ELSE IF value = <<"+">> THEN <<"k", "e", "e", "p", "a", "l", "i", "v", "e">>
                               ELSE IF value = <<"-">> THEN <<"c", "l", "o", "s", "e">>
                               ELSE value)
         ELSE IF value = <<"-">> THEN Null ELSE Value("VARCHAR", value)
    ELSE IF field.type = "INTEGER"
    THEN IF value = <<"-">> THEN Null
         ELSE IF stoi(value).ok THEN Value("INTEGER", stoi(value).data) ELSE Null
    ELSE IF field.type = "BIGINT"
    THEN IF value = <<"-">>
         THEN IF field.column_name \in bytes_columns THEN Value("BIGINT", <<"0">>) ELSE Null
         ELSE IF stoll(value).ok THEN Value("BIGINT", stoll(value).data) ELSE Null
    ELSE IF field.type = "INTERVAL"
    THEN IF value = <<"-">> THEN Null
         ELSE IF ~stoll(value).ok THEN Null
         ELSE IF field.directive = <<"%", "T">>
         THEN IF field.modifier = <<"m", "s">> THEN TimesPowerOfTen("INTERVAL", stoll(value).data, 3)
              ELSE IF field.modifier = <<"u", "s">> THEN Value("INTERVAL", stoll(value).data)
              ELSE TimesPowerOfTen("INTERVAL", stoll(value).data, 6)
         ELSE Value("INTERVAL", stoll(value).data)
    ELSE Unwritten

RECURSIVE WordEnd(_, _)
WordEnd(s, p) == IF p < Len(s) /\ ~IsSpace(At(s, p)) THEN WordEnd(s, p + 1) ELSE p

\* operator>>(std::istream &, std::string &): skip whitespace, then read up to the next whitespace
ReadWord(s, p) ==
    LET start == SkipWhitespace(s, p)
        end == WordEnd(s, start)
    IN  [ok |-> start < Len(s), word |-> SubStr(s, start, end - start), pos |-> end]

Request(parsed, method, path, query_string, protocol) ==
    [parsed |-> parsed, method |-> method, path |-> path, query_string |-> query_string, protocol |-> protocol]

\* ParseRequest with the query string cut after the '?'
ParseRequest_QueryAfterMark(request) ==
    LET method == ReadWord(request, 0)
        full_path == ReadWord(request, method.pos)
        protocol == ReadWord(request, full_path.pos)
        query_pos == Find(full_path.word, "?", 0)
    IN  IF ~(method.ok /\ full_path.ok /\ protocol.ok) THEN Request(FALSE, <<>>, <<>>, <<>>, <<>>)
        ELSE IF query_pos # NPOS
        THEN Request(TRUE, method.word, SubStr(full_path.word, 0, query_pos),
                     SubStrFrom(full_path.word, query_pos + 1), protocol.word)
        ELSE Request(TRUE, method.word, full_path.word, <<>>, protocol.word)

\* httpd_log_format_parser.cpp lines 776-797
ParseRequest(request) ==
    LET method == ReadWord(request, 0)
        full_path == ReadWord(request, method.pos)
        protocol == ReadWord(request, full_path.pos)
        query_pos == Find(full_path.word, "?", 0)
    IN  IF ~(method.ok /\ full_path.ok /\ protocol.ok) THEN Request(FALSE, <<>>, <<>>, <<>>, <<>>)
        ELSE IF query_pos # NPOS
        THEN Request(TRUE, method.word, SubStr(full_path.word, 0, query_pos),
                     SubStrFrom(full_path.word, query_pos), protocol.word)
        ELSE Request(TRUE, method.word, full_path.word, <<>>, protocol.word)

\* httpd_log_file_reader.cpp lines 520-572: what the branch of one sub-column stores
WriteRequestValue(label, parse_error, value) ==
    LET request == IF parse_error THEN Request(FALSE, <<>>, <<>>, <<>>, <<>>) ELSE ParseRequest(value) IN
    IF label = "query_string"
    THEN IF parse_error \/ ~request.parsed \/ request.query_string = <<>> THEN Null
         ELSE Value("VARCHAR", request.query_string)
    ELSE IF parse_error \/ ~request.parsed THEN Value("VARCHAR", <<>>)
    ELSE Value("VARCHAR", IF label = "method" THEN request.method
                          ELSE IF label = "path" THEN request.path
                          ELSE request.protocol)

\* ------------------------------------------------------------------------
\* Timestamps.  An instant is a timestamp_t: its microseconds since the epoch,
\* kept as whole days, seconds of the day and microseconds of the second.
\* ------------------------------------------------------------------------
SECS_PER_DAY == 86400

MICROS_PER_SEC == 1000000

MICROS_PER_MSEC == 1000

\* Timestamp::FromEpochMicroSeconds of days, seconds and microseconds that need not be in range
Instant(days, secs, usec) ==
    LET s == secs + (usec \div MICROS_PER_SEC) IN
    [days |-> days + (s \div SECS_PER_DAY), secs |-> s % SECS_PER_DAY, usec |-> usec % MICROS_PER_SEC]

\* the number a std::stoi / std::stoll result denotes
RECURSIVE DigitsToInt(_, _)
DigitsToInt(digits, acc) ==
    IF digits = <<>> THEN acc ELSE DigitsToInt(Tail(digits), 10 * acc + DigitValue(digits[1]))

ToInt(data) == IF data[1] = "-" THEN 0 - DigitsToInt(Tail(data), 0) ELSE DigitsToInt(data, 0)

IsLeapYear(year) == (year % 4 = 0 /\ year % 100 # 0) \/ year % 400 = 0

DaysInMonth(year, month) ==
    IF month = 2 THEN (IF IsLeapYear(year) THEN 29 ELSE 28)
    ELSE IF month \in {4, 6, 9, 11} THEN 30 ELSE 31

\* Date::IsValid
IsValidDate(year, month, day) == month \in 1..12 /\ day >= 1 /\ day <= DaysInMonth(year, month)

\* Date::FromDate of a valid date: days since 1970-01-01
FromDate(year, month, day) ==
    LET y == IF month <= 2 THEN year - 1 ELSE year
        era == y \div 400
        yoe == y - era * 400
        doy == ((153 * (IF month > 2 THEN month - 3 ELSE month + 9) + 2) \div 5) + day - 1
        doe == yoe * 365 + (yoe \div 4) - (yoe \div 100) + doy
    IN  era * 146097 + doe - 719468

\* Timestamp::FromDatetime(Date::FromDate(...), Time::FromTime(hour, minute, second, 0)),
\* then the shift to UTC
FromDatetime(year, month, day, hour, minute, second, tz_offset) ==
    Instant(FromDate(year, month, day), hour * 3600 + minute * 60 + second - tz_offset, 0)

months == <<<<"J", "a", "n">>, <<"F", "e", "b">>, <<"M", "a", "r">>, <<"A", "p", "r">>, <<"M", "a", "y">>, <<"J", "u", "n">>, <<"J", "u", "l">>, <<"A", "u", "g">>, <<"S", "e", "p">>, <<"O", "c", "t">>, <<"N", "o", "v">>, <<"D", "e", "c">>>>

\* index of the first month name equal to s, 0 when there is none
MonthNumber(s) ==
    IF \E i \in 1..12 : months[i] = s THEN CHOOSE i \in 1..12 : months[i] = s ELSE 0

\* one formatted extraction from a std::istringstream at position p: an int, a char
\* or a std::string (kind "int", "char", "word")
Extracted(ok, val, c, word, pos) == [ok |-> ok, val |-> val, c |-> c, word |-> word, pos |-> pos]

\* operator>>(std::istream &, int &), the digits ending at `last`
ReadIntTo(s, start, first, last) ==
    CHOOSE r \in {Extracted(last > first /\ n.ok, IF last > first /\ n.ok THEN ToInt(n.data) ELSE 0,
                            NUL, <<>>, last) :
                  n \in {stoi(SubStr(s, start, last - start))}} : TRUE

ReadIntFrom(s, start, first) ==
    CHOOSE r \in {ReadIntTo(s, start, first, last) : last \in {DigitRun(s, first)}} : TRUE

Extract(kind, s, p) ==
    CHOOSE r \in {IF kind = "int"
                  THEN ReadIntFrom(s, start, IF At(s, start) \in {"+", "-"} THEN start + 1 ELSE start)
                  ELSE IF kind = "char" THEN Extracted(start < Len(s), 0, At(s, start), <<>>, start + 1)
                  ELSE Extracted(start < Len(s), 0, NUL, ReadWord(s, start).word, ReadWord(s, start).pos) :
                  start \in {SkipWhitespace(s, p)}} : TRUE

\* a chain of extractions; once one fails the stream is bad and the rest fail too
RECURSIVE ExtractAll(_, _, _, _, _)
ExtractAll(kinds, k, s, p, good) ==
    IF k > Len(kinds) THEN <<>>
    ELSE IF ~good THEN <<Extracted(FALSE, 0, NUL, <<>>, p)>> \o ExtractAll(kinds, k + 1, s, p, FALSE)
    ELSE CHOOSE rest \in {<<r>> \o ExtractAll(kinds, k + 1, s, r.pos, r.ok) : r \in {Extract(kinds[k], s, p)}} : TRUE

Parsed(outcome, ts) == [outcome |-> outcome, ts |-> ts]

NoInstant == Instant(0, 0, 0)

\* std::stoi(s.substr(pos, 2)); substr throws std::out_of_range when pos > s.length()
TwoDigits(s, pos) ==
    IF pos > Len(s) THEN Converted(FALSE, <<>>) ELSE stoi(SubStr(s, pos, 2))

\* iss >> day >> sep1 >> month_str[0] >> month_str[1] >> month_str[2] >> sep2 >> year >> sep3
\*     >> hour >> sep4 >> minute >> sep5 >> second >> tz_str
ApacheExtractions ==
    <<"int", "char", "char", "char", "char", "char", "int", "char", "int", "char", "int", "char", "int", "word">>

\* lines 752-772: the time zone, the date and the instant
ApacheInstant(day, month, year, hour, minute, second, tz_str) ==
    CHOOSE r \in {IF ~tz_hours.ok \/ ~tz_minutes.ok THEN Parsed("throws", NoInstant)
                  ELSE IF ~IsValidDate(year, month, day) THEN Parsed("throws", NoInstant)
                  ELSE Parsed("ok", FromDatetime(year, month, day, hour, minute, second,
                                                 (IF At(tz_str, 0) = "-" THEN -1 ELSE 1) *
                                                 (ToInt(tz_hours.data) * 3600 + ToInt(tz_minutes.data) * 60))) :
                  tz_hours \in {TwoDigits(tz_str, 1)}, tz_minutes \in {TwoDigits(tz_str, 3)}} : TRUE

\* httpd_log_format_parser.cpp lines 720-774.  outcome is "ok" (true), "fail" (false)
\* or "throws" (std::stoi, std::string::substr or Date::FromDate throws and nothing catches)
ParseTimestamp(timestamp_str) ==
    CHOOSE r \in {IF \E k \in 1..Len(x) : ~x[k].ok THEN Parsed("fail", NoInstant)
                  ELSE IF x[2].c # "/" \/ x[6].c # "/" \/ x[8].c # ":" \/ x[10].c # ":" \/ x[12].c # ":"
                  THEN Parsed("fail", NoInstant)
                  ELSE IF MonthNumber(<<x[3].c, x[4].c, x[5].c>>) = 0 THEN Parsed("fail", NoInstant)
                  ELSE ApacheInstant(x[1].val, MonthNumber(<<x[3].c, x[4].c, x[5].c>>), x[7].val, x[9].val,
                                     x[11].val, x[13].val, x[14].word) :
                  x \in {ExtractAll(ApacheExtractions, 1, timestamp_str, 0, TRUE)}} : TRUE

\* the locals of ParseStrftimeTimestamp
StrftimeLocals ==
    [year |-> 0, month |-> 0, day |-> 0, hour |-> 0, minute |-> 0, second |-> 0,
     tz_offset |-> 0, has_timezone |-> FALSE]

Step(outcome, st, val_pos) == [outcome |-> outcome, st |-> st, val_pos |-> val_pos]

\* if (val_pos + width <= value.length()) { local = std::stoi(value.substr(val_pos, width)); val_pos += width; }
ReadNumber(st, local, value, val_pos, width) ==
    IF val_pos + width > Len(value) THEN Step("ok", st, val_pos)
    ELSE IF ~stoi(SubStr(value, val_pos, width)).ok THEN Step("throws", st, val_pos)
    ELSE Step("ok", [st EXCEPT ![local] = ToInt(stoi(SubStr(value, val_pos, width)).data)], val_pos + width)

RECURSIVE SkipToBlank(_, _)
SkipToBlank(s, p) == IF p < Len(s) /\ At(s, p) # " " THEN SkipToBlank(s, p + 1) ELSE p

\* httpd_log_file_reader.cpp lines 36-137: the switch over one conversion specifier
StrftimeSpec(spec, value, val_pos, st) ==
    CASE spec = "Y" -> ReadNumber(st, "year", value, val_pos, 4)
      [] spec = "y" ->
             IF val_pos + 2 > Len(value) THEN Step("ok", st, val_pos)
             ELSE IF ~stoi(SubStr(value, val_pos, 2)).ok THEN Step("throws", st, val_pos)
             ELSE LET year == ToInt(stoi(SubStr(value, val_pos, 2)).data)
                  IN  Step("ok", [st EXCEPT !.year = year + (IF year >= 70 THEN 1900 ELSE 2000)], val_pos + 2)
      [] spec = "m" -> ReadNumber(st, "month", value, val_pos, 2)
      [] spec = "d" -> ReadNumber(st, "day", value, val_pos, 2)
      [] spec = "e" ->
             LET pos == IF At(value, val_pos) = " " THEN val_pos + 1 ELSE val_pos
                 width == IF IsDigit(At(value, pos + 1)) THEN 2 ELSE 1
             IN  IF pos + 1 > Len(value) THEN Step("ok", st, pos)
                 ELSE ReadNumber(st, "day", value, pos, width)
      [] spec \in {"b", "h"} ->
             IF MonthNumber(SubStr(value, val_pos, 3)) # 0
             THEN Step("ok", [st EXCEPT !.month = MonthNumber(SubStr(value, val_pos, 3))], val_pos + 3)
             ELSE Step("ok", st, val_pos)
      [] spec \in {"H", "I"} -> ReadNumber(st, "hour", value, val_pos, 2)
      [] spec = "M" -> ReadNumber(st, "minute", value, val_pos, 2)
      [] spec = "S" -> ReadNumber(st, "second", value, val_pos, 2)
      [] spec = "T" ->
             IF val_pos + 8 > Len(value) THEN Step("ok", st, val_pos)
             ELSE IF ~(stoi(SubStr(value, val_pos, 2)).ok /\ stoi(SubStr(value, val_pos + 3, 2)).ok
                       /\ stoi(SubStr(value, val_pos + 6, 2)).ok)
             THEN Step("throws", st, val_pos)
             ELSE Step("ok", [st EXCEPT !.hour = ToInt(stoi(SubStr(value, val_pos, 2)).data),
                                        !.minute = ToInt(stoi(SubStr(value, val_pos + 3, 2)).data),
                                        !.second = ToInt(stoi(SubStr(value, val_pos + 6, 2)).data)],
                       val_pos + 8)
      [] spec = "z" ->
             IF val_pos + 5 > Len(value) THEN Step("ok", st, val_pos)
             ELSE IF ~(stoi(SubStr(value, val_pos + 1, 2)).ok /\ stoi(SubStr(value, val_pos + 3, 2)).ok)
             THEN Step("throws", st, val_pos)
             ELSE Step("ok", [st EXCEPT !.tz_offset = (IF At(value, val_pos) = "-" THEN -1 ELSE 1) *
                                            (ToInt(stoi(SubStr(value, val_pos + 1, 2)).data) * 3600 +
                                             ToInt(stoi(SubStr(value, val_pos + 3, 2)).data) * 60),
                                        !.has_timezone = TRUE],
                       val_pos + 5)
      [] spec = "Z" -> Step("ok", st, SkipToBlank(value, val_pos))
      [] spec = "%" -> Step("ok", st, IF At(value, val_pos) = "%" THEN val_pos + 1 ELSE val_pos)
      [] OTHER -> Step("ok", st, val_pos)

\* httpd_log_file_reader.cpp lines 26-147: the loop over the format
RECURSIVE StrftimeLoop(_, _, _, _, _)
StrftimeLoop(value, format, val_pos, fmt_pos, st) ==
    IF ~(fmt_pos < Len(format) /\ val_pos < Len(value)) THEN Step("ok", st, val_pos)
    ELSE IF At(format, fmt_pos) = "%" /\ fmt_pos + 1 < Len(format)
    THEN LET dash == At(format, fmt_pos + 1) = "-" /\ fmt_pos + 2 < Len(format) IN
         CHOOSE r \in {IF step.outcome # "ok" THEN step
                       ELSE StrftimeLoop(value, format, step.val_pos,
                                         IF dash THEN fmt_pos + 3 ELSE fmt_pos + 2, step.st) :
                       step \in {StrftimeSpec(IF dash THEN At(format, fmt_pos + 2) ELSE At(format, fmt_pos + 1),
                                              value, val_pos, st)}} : TRUE
    ELSE IF At(format, fmt_pos) = At(value, val_pos)
    THEN StrftimeLoop(value, format, val_pos + 1, fmt_pos + 1, st)
    ELSE Step("fail", st, val_pos)

\* httpd_log_file_reader.cpp lines 15-166
ParseStrftimeTimestamp(value, format) ==
    CHOOSE r \in {IF loop.outcome # "ok" THEN Parsed(loop.outcome, NoInstant)
                  ELSE IF loop.st.year = 0 \/ loop.st.month = 0 \/ loop.st.day = 0 THEN Parsed("fail", NoInstant)
                  ELSE IF ~IsValidDate(loop.st.year, loop.st.month, loop.st.day) THEN Parsed("fail", NoInstant)
                  ELSE Parsed("ok", FromDatetime(loop.st.year, loop.st.month, loop.st.day, loop.st.hour,
                                                 loop.st.minute, loop.st.second,
                                                 IF loop.st.has_timezone THEN loop.st.tz_offset ELSE 0)) :
                  loop \in {StrftimeLoop(value, format, 0, 0, StrftimeLocals)}} : TRUE

\* httpd_log_file_reader.cpp lines 168-185
ParseTimezoneOffset(value) ==
    IF Len(value) # 5 THEN [ok |-> FALSE, tz_offset_seconds |-> 0]
    ELSE IF At(value, 0) \notin {"+", "-"} THEN [ok |-> FALSE, tz_offset_seconds |-> 0]
    ELSE IF ~(stoi(SubStr(value, 1, 2)).ok /\ stoi(SubStr(value, 3, 2)).ok)
    THEN [ok |-> FALSE, tz_offset_seconds |-> 0]
    ELSE [ok |-> TRUE,
          tz_offset_seconds |-> (IF At(value, 0) = "-" THEN -1 ELSE 1) *
                                (ToInt(stoi(SubStr(value, 1, 2)).data) * 3600 +
                                 ToInt(stoi(SubStr(value, 3, 2)).data) * 60)]

\* the locals of CombineTimestampGroup
CombineLocals ==
    [base_epoch_us |-> NoInstant, frac_us |-> 0, has_base |-> FALSE, raw_parts |-> <<>>,
     combined_strftime_value |-> <<>>, combined_strftime_format |-> <<>>,
     has_strftime_components |-> FALSE, throws |-> FALSE]

\* val * MICROS_PER_MSEC microseconds
FromMillis(val) == Instant(0, val \div MICROS_PER_MSEC, (val % MICROS_PER_MSEC) * MICROS_PER_MSEC)

\* httpd_log_file_reader.cpp lines 214-277: the switch over one member of the group
CombineComponent(field, value, st) ==
    CASE field.timestamp_type = "APACHE_DEFAULT" ->
             CHOOSE r \in {IF ts.outcome = "throws" THEN [st EXCEPT !.throws = TRUE]
                           ELSE IF ts.outcome = "ok" THEN [st EXCEPT !.base_epoch_us = ts.ts, !.has_base = TRUE]
                           ELSE st : ts \in {ParseTimestamp(value)}} : TRUE
      [] field.timestamp_type = "EPOCH_SEC" ->
             IF stoll(value).ok
             THEN [st EXCEPT !.base_epoch_us = Instant(0, ToInt(stoll(value).data), 0), !.has_base = TRUE]
             ELSE st
      [] field.timestamp_type = "EPOCH_MSEC" ->
             IF stoll(value).ok
             THEN [st EXCEPT !.base_epoch_us = FromMillis(ToInt(stoll(value).data)), !.has_base = TRUE]
             ELSE st
      [] field.timestamp_type = "EPOCH_USEC" ->
             IF stoll(value).ok
             THEN [st EXCEPT !.base_epoch_us = Instant(0, 0, ToInt(stoll(value).data)), !.has_base = TRUE]
             ELSE st
      [] field.timestamp_type = "FRAC_MSEC" ->
             IF stoll(value).ok THEN [st EXCEPT !.frac_us = ToInt(stoll(value).data) * MICROS_PER_MSEC] ELSE st
      [] field.timestamp_type = "FRAC_USEC" ->
             IF stoll(value).ok THEN [st EXCEPT !.frac_us = ToInt(stoll(value).data)] ELSE st
      [] OTHER ->
             [st EXCEPT !.combined_strftime_value =
                            (IF st.has_strftime_components THEN @ \o <<" ">> ELSE @) \o value,
                        !.combined_strftime_format =
                            (IF st.has_strftime_components THEN @ \o <<" ">> ELSE @) \o field.strftime_format,
                        !.has_strftime_components = TRUE]

\* httpd_log_file_reader.cpp lines 203-278: the loop over the members of the group
RECURSIVE CombineLoop(_, _, _, _, _, _)
CombineLoop(parsed_format, group, parsed_values, value_idx, i, st) ==
    IF i >= Len(group.field_indices) \/ st.throws THEN st
    ELSE LET field == parsed_format.fields[group.field_indices[i + 1] + 1]
             value == parsed_values[value_idx + i + 1]
         IN  CombineLoop(parsed_format, group, parsed_values, value_idx, i + 1,
                         CombineComponent(field, value,
                                          [st EXCEPT !.raw_parts = (IF i > 0 THEN @ \o <<" ">> ELSE @) \o value]))

Combined(outcome, result, raw_combined) == [outcome |-> outcome, result |-> result, raw_combined |-> raw_combined]

\* lines 280-296: the concatenated strftime members give the base when no other member did;
\* has_tz is set only where has_base stays false
CombineStrftime(st) ==
    IF st.throws \/ ~st.has_strftime_components \/ st.has_base THEN st
    ELSE CHOOSE r \in {IF ts.outcome = "throws" THEN [st EXCEPT !.throws = TRUE]
                       ELSE IF ts.outcome = "ok" THEN [st EXCEPT !.base_epoch_us = ts.ts, !.has_base = TRUE]
                       ELSE st :
                       ts \in {ParseStrftimeTimestamp(st.combined_strftime_value, st.combined_strftime_format)}} : TRUE

\* httpd_log_file_reader.cpp lines 187-308.  outcome is "ok" (true), "fail" (false) or
\* "throws" (an exception of ParseTimestamp or ParseStrftimeTimestamp leaves the function)
CombineTimestampGroup(parsed_format, group, parsed_values, value_idx) ==
    CHOOSE r \in {IF st.throws THEN Combined("throws", NoInstant, st.raw_parts)
                  ELSE IF st.has_base
                  THEN Combined("ok", Instant(st.base_epoch_us.days, st.base_epoch_us.secs,
                                              st.base_epoch_us.usec + st.frac_us), st.raw_parts)
                  ELSE Combined("fail", NoInstant, st.raw_parts) :
                  st \in {CombineStrftime(CombineLoop(parsed_format, group, parsed_values, value_idx, 0,
                                                      CombineLocals))}} : TRUE

\* an exception leaves WriteColumnValue and ends the scan
Thrown == Value("throws", <<>>)

TimestampValue(ts) == Value("TIMESTAMP", <<ts.days, ts.secs, ts.usec>>)

\* httpd_log_file_reader.cpp lines 421-619: the value the branch `cell` stores
CellValue(parsed_format, parsed_values, parse_error, cell, path, input) ==
    LET field == parsed_format.fields[cell.field + 1] IN
    CASE cell.column = "regular" ->
             IF parse_error THEN (IF field.type = "VARCHAR" THEN Value("VARCHAR", <<>>) ELSE Null)
             ELSE WriteRegularFieldValue(field, parsed_values[cell.value_idx + 1])
      [] cell.column \in {"method", "path", "query_string", "protocol"} ->
             WriteRequestValue(cell.column, parse_error,
                               IF parse_error THEN <<>> ELSE parsed_values[cell.value_idx + 1])
      [] cell.column \in {"timestamp", "timestamp_raw"} ->
             IF parse_error THEN (IF cell.column = "timestamp" THEN Null ELSE Value("VARCHAR", <<>>))
             ELSE IF field.timestamp_group_id >= 0
             THEN CHOOSE v \in {IF ts.outcome = "throws" THEN Thrown
                                ELSE IF cell.column = "timestamp_raw" THEN Value("VARCHAR", ts.raw_combined)
                                ELSE IF ts.outcome = "ok" THEN TimestampValue(ts.result)
                                ELSE Null :
                                ts \in {CombineTimestampGroup(parsed_format,
                                            parsed_format.timestamp_groups[field.timestamp_group_id + 1],
                                            parsed_values, cell.value_idx)}} : TRUE
             ELSE IF cell.column = "timestamp_raw" THEN Value("VARCHAR", parsed_values[cell.value_idx + 1])
             ELSE CHOOSE v \in {IF ts.outcome = "throws" THEN Thrown
                                ELSE IF ts.outcome = "ok" THEN TimestampValue(ts.ts)
                                ELSE Null : ts \in {ParseTimestamp(parsed_values[cell.value_idx + 1])}} : TRUE
      [] cell.column = "log_file" -> Value("VARCHAR", path)
      [] cell.column = "parse_error" -> Value("BOOLEAN", <<parse_error>>)
      [] cell.column = "raw_line" -> IF parse_error THEN Value("VARCHAR", input) ELSE Null
      [] OTHER -> Unwritten

\* ------------------------------------------------------------------------
\* Inputs.  A format string is one to MaxWords words joined by single blanks;
\* a log line is one to MaxLineWords tokens joined by single blanks.
\* ------------------------------------------------------------------------
MaxWords == 2

MaxLineWords == 2

FormatWords ==
    {<<"%", "h">>,
     <<"%", "b">>,
     <<"%", "B">>,
     <<"%", "D">>,
     <<"%", "T">>,
     <<"%", ">", "s">>,
     <<"%", "r">>,
     <<"%", ">", "r">>,
     <<"\"", "%", "r", "\"">>,
     <<"%", "m">>,
     <<"%", "U">>,
     <<"%", "t">>,
     <<"%", "{", "u", "s", "e", "c", "_", "f", "r", "a", "c", "}", "t">>,
     <<"\"", "%", "t", " ", "%", "{", "u", "s", "e", "c", "_", "f", "r", "a", "c", "}", "t", "\"">>,
     <<"%", "{", "X", "}", "i">>,
     <<"%", "{", "X", "}", "o">>,
     <<"%", "{", "X", "_", "o", "u", "t", "}", "i">>,
     <<"%", "4", ",", "5", "U">>,
     <<"%", "!", "2", ">", "s">>,
     <<"%", "!", "2", ",", "3", "{", "X", "}", "i">>,
     <<"a">>}

LineTokens ==
    {<<"a">>, <<"[", "1", "]">>, <<"1", "2", "3", "4", "5", "6">>, <<"\"", "a", "\"">>}

RECURSIVE Join(_)
Join(ws) == IF Len(ws) = 0 THEN <<>> ELSE IF Len(ws) = 1 THEN ws[1] ELSE ws[1] \o <<" ">> \o Join(Tail(ws))

SeqsUpTo(S, n) == UNION {[1..k -> S] : k \in 1..n}

Formats == {Join(ws) : ws \in SeqsUpTo(FormatWords, MaxWords)}

Lines == {Join(ts) : ts \in SeqsUpTo(LineTokens, MaxLineWords)}

TieOrders == {"stable", "reversed"}

NoFormat == EmptyParsedFormat(<<>>)

\* ------------------------------------------------------------------------
\* State
\* ------------------------------------------------------------------------
VARIABLES
    pc,                  \* position of the bind / open / scan pipeline
    raw_mode,            \* HttpdLogBindData::raw_mode
    parsed_format,       \* HttpdLogBindData::parsed_format
    names,               \* the schema BindReader returns (GenerateSchema)
    columns,             \* HttpdLogFileReader::columns
    file,                \* the lines the buffered reader returns for the file, in order
    read_pos,            \* number of lines ReadLine has returned so far
    scan_initialized,    \* HttpdLogFileReader::scan_initialized
    finished,            \* HttpdLogFileReader::finished
    current_line_number, \* HttpdLogFileReader::current_line_number
    rows,                \* the rows emitted so far
    line,                \* the line being extracted
    parsed_values,       \* result of ParseLogLine for `line`
    parse_error,         \* parsed_values.empty()
    output,              \* the cells written for `line`, in column order
    threads,             \* per worker thread: position inside its call, its line, its result
    true_returns,        \* number of TryInitializeScan calls that returned true
    late_true,           \* some call returned true when finished was already set
    matches,             \* ParsedFormat::matches, the capture slots RE2 fills
    writers,             \* the threads that have written ParsedFormat::matches / args
    file_handle,         \* HttpdLogBufferedReader::file_handle: the file's bytes and the read position
    BUFFER_SIZE,         \* HttpdLogBufferedReader::BUFFER_SIZE, fixed for the life of a reader
    buffer,              \* HttpdLogBufferedReader::buffer
    buffer_offset,       \* HttpdLogBufferedReader::buffer_offset
    buffer_size,         \* HttpdLogBufferedReader::buffer_size
    eof_reached,         \* HttpdLogBufferedReader::eof_reached
    result,              \* the string ReadLine fills for its caller
    returned,            \* what the last ReadLine call returned ("none" before the first call)
    lines_read,          \* the strings of the calls that returned true, in order
    format_type,         \* HttpdLogBindData::format_type
    format_str,          \* HttpdLogBindData::format_str
    conf,                \* HttpdLogBindData::conf, the path of the conf file ("" when not given)
    conf_entries,        \* what HttpdConfReader::ParseConfigFile returns for that file
    bind_error,          \* BindReader threw a BinderException
    bind_path,           \* the branch of BindReader that ran ("none" before the bind)
    written,             \* the values stored in the output vectors for `line`, in column order
    caches               \* cache_initialized, directive_cache, header_cache and the threads calling into them

bindVars == <<raw_mode, parsed_format, names>>

readerVars == <<columns, file, read_pos, scan_initialized, finished, current_line_number, rows>>

lineVars == <<line, parsed_values, parse_error, output>>

threadVars == <<threads, true_returns, late_true, matches, writers>>

bufVars ==
    <<file_handle, BUFFER_SIZE, buffer, buffer_offset, buffer_size, eof_reached, result, returned, lines_read>>

\* the state of the components added after the scan pipeline
optVars == <<format_type, format_str, conf, conf_entries, bind_error, bind_path>>

extVars == <<bufVars, optVars, written, caches>>

vars ==
    <<pc, raw_mode, parsed_format, names, columns, file, read_pos, scan_initialized, finished,
      current_line_number, rows, line, parsed_values, parse_error, output,
      threads, true_returns, late_true, matches, writers, extVars>>

FileHandle(data, pos) == [data |-> data, pos |-> pos]

\* no buffered reader has been constructed
BufIdle ==
    /\ file_handle = FileHandle(<<>>, 0)
    /\ BUFFER_SIZE = 0
    /\ buffer = <<>>
    /\ buffer_offset = 0
    /\ buffer_size = 0
    /\ eof_reached = FALSE
    /\ result = <<>>
    /\ returned = "none"
    /\ lines_read = <<>>

\* no option has been given
OptIdle ==
    /\ format_type = <<>>
    /\ format_str = <<>>
    /\ conf = <<>>
    /\ conf_entries = <<>>
    /\ bind_error = FALSE
    /\ bind_path = "none"

\* httpd_log_format_parser.cpp lines 99-101: both caches empty, cache_initialized false,
\* no thread inside GetDirectiveDefinition or GetTypedHeaderType
NoCaches == [cache_initialized |-> FALSE, directive_cache |-> {}, header_cache |-> {}, callers |-> <<>>]

ExtIdle == BufIdle /\ OptIdle /\ written = <<>> /\ caches = NoCaches

\* nothing has been bound, opened or scanned
PipelineIdle ==
    /\ pc = "start"
    /\ raw_mode = FALSE
    /\ parsed_format = NoFormat
    /\ names = <<>>
    /\ columns = <<>>
    /\ file = <<>>
    /\ read_pos = 0
    /\ scan_initialized = FALSE
    /\ finished = FALSE
    /\ current_line_number = 0
    /\ rows = <<>>
    /\ line = <<>>
    /\ parsed_values = <<>>
    /\ parse_error = FALSE
    /\ output = <<>>
    /\ threads = <<>>
    /\ true_returns = 0
    /\ late_true = FALSE
    /\ matches = <<>>
    /\ writers = {}

pipeVars == <<pc, bindVars, readerVars, lineVars, threadVars>>

Init == PipelineIdle /\ ExtIdle

\* httpd_log_multi_file_info.cpp lines 90-234, the format_str path:
\* compile the format and return the schema
BindReader(format, raw, tie_order) ==
    /\ pc = "start"
    /\ raw_mode' = raw
    /\ parsed_format' = ParseFormatString(format, tie_order)
    /\ names' = GenerateSchema(parsed_format', raw)
    /\ pc' = "bound"
    /\ UNCHANGED <<extVars, readerVars, lineVars, threadVars>>

\* httpd_log_file_reader.cpp lines 310-356: a reader is constructed over a file
CreateReader(content) ==
    /\ pc = "bound"
    /\ columns' = ReaderColumns(parsed_format, raw_mode)
    /\ file' = content
    /\ pc' = "open"
    /\ UNCHANGED <<extVars, bindVars, read_pos, scan_initialized, finished, current_line_number, rows, lineVars, threadVars>>

\* httpd_log_file_reader.cpp lines 384-403: the next line is read and parsed; a
\* failed parse is skipped unless raw mode keeps it
ParseLine ==
    /\ pc = "open"
    /\ read_pos < Len(file)
    /\ file[read_pos + 1] # <<>>
    /\ read_pos' = read_pos + 1
    /\ line' = file[read_pos + 1]
    /\ parsed_values' = ParseLogLine(line', parsed_format)
    /\ parse_error' = (parsed_values' = <<>>)
    /\ output' = <<>>
    /\ written' = <<>>
    /\ pc' = IF parse_error' /\ ~raw_mode THEN "skipped" ELSE "parsed"
    /\ UNCHANGED <<bufVars, optVars, bindVars, columns, file, scan_initialized, finished, current_line_number, rows, threadVars, caches>>

\* an index read outside parsed_values: duckdb::vector::operator[] throws
OutOfBounds(cell, values) == \E i \in cell.reads : i >= Len(values)

\* OpenFileInfo::path of the file the reader is constructed over
file_path == <<"f">>

\* httpd_log_file_reader.cpp lines 406-413: the next projected column is written; an
\* exception of the extractor ends the scan
WriteColumn ==
    /\ pc = "parsed"
    /\ Len(output) < Len(columns)
    /\ \E cell \in {WriteColumnValue(parsed_format, raw_mode, Len(output), parse_error)} :
           IF OutOfBounds(cell, parsed_values)
           THEN pc' = "error" /\ UNCHANGED <<output, written>>
           ELSE \E value \in {CellValue(parsed_format, parsed_values, parse_error, cell, file_path, line)} :
                    IF value = Thrown
                    THEN pc' = "error" /\ UNCHANGED <<output, written>>
                    ELSE pc' = pc /\ output' = Append(output, cell) /\ written' = Append(written, value)
    /\ UNCHANGED <<bufVars, optVars, bindVars, readerVars, line, parsed_values, parse_error, threadVars, caches>>

\* httpd_log_table_function.cpp lines 540-843: the table function writes the whole row
Function ==
    /\ pc = "parsed"
    /\ output = <<>>
    /\ LET row == FunctionRow(parsed_format, raw_mode, parse_error)
       IN  IF \E k \in 1..Len(row) : OutOfBounds(row[k], parsed_values)
           THEN pc' = "error" /\ output' = output
           ELSE pc' = "row" /\ output' = row
    /\ UNCHANGED <<extVars, bindVars, readerVars, line, parsed_values, parse_error, threadVars>>

Next ==
    \/ \E f \in Formats, raw \in BOOLEAN, tie_order \in TieOrders : BindReader(f, raw, tie_order)
    \/ \E l \in Lines : CreateReader(<<l>>)
    \/ ParseLine
    \/ WriteColumn
    \/ Function

Spec == Init /\ [][Next]_vars

\* ------------------------------------------------------------------------
\* The scan of one file by its reader
\* ------------------------------------------------------------------------
MaxScanWords == 2

MaxFileLines == 2

\* BATCH_SIZE is STANDARD_VECTOR_SIZE in the code; the model scales it to its files
BATCH_SIZE == 2

ScanFormats == {Join(ws) : ws \in SeqsUpTo(FormatWords, MaxScanWords)}

FileLines == {<<>>, <<"a">>, <<"a", " ", "a">>}

Files == {<<>>} \cup SeqsUpTo(FileLines, MaxFileLines)

Row(source, error, line_number) == [source |-> source, parse_error |-> error, line_number |-> line_number]

Batch(pos, done, out, aborted) == [read_pos |-> pos, finished |-> done, rows |-> out, aborted |-> aborted]

\* httpd_log_file_reader.cpp lines 405-413: some projected column reads outside parsed_values
RowAborts(values) ==
    /\ values # <<>>
    /\ \E p \in 0..(Len(columns) - 1) :
           OutOfBounds(WriteColumnValue(parsed_format, raw_mode, p, FALSE), values)

\* the loop of one Scan call, were it to read one line more on leaving a full batch
RECURSIVE ScanLoop_ReadsPastFullBatch(_, _, _)
ScanLoop_ReadsPastFullBatch(pos, output_idx, out) ==
    IF output_idx >= BATCH_SIZE THEN Batch(IF pos < Len(file) THEN pos + 1 ELSE pos, FALSE, out, FALSE)
    ELSE IF pos >= Len(file) THEN Batch(pos, TRUE, out, FALSE)
    ELSE IF file[pos + 1] = <<>> THEN ScanLoop_ReadsPastFullBatch(pos + 1, output_idx, out)
    ELSE LET parsed == {ParseLogLine(file[pos + 1], parsed_format)}
         IN  IF parsed = {<<>>}
             THEN IF ~raw_mode THEN ScanLoop_ReadsPastFullBatch(pos + 1, output_idx, out)
                  ELSE ScanLoop_ReadsPastFullBatch(pos + 1, output_idx + 1, Append(out, Row(pos + 1, TRUE, current_line_number)))
             ELSE IF \E values \in parsed : RowAborts(values)
             THEN Batch(pos + 1, FALSE, out, TRUE)
             ELSE ScanLoop_ReadsPastFullBatch(pos + 1, output_idx + 1, Append(out, Row(pos + 1, FALSE, current_line_number)))

\* httpd_log_file_reader.cpp lines 383-416: the loop of one Scan call
RECURSIVE ScanLoop(_, _, _)
ScanLoop(pos, output_idx, out) ==
    IF output_idx >= BATCH_SIZE THEN Batch(pos, FALSE, out, FALSE)
    ELSE IF pos >= Len(file) THEN Batch(pos, TRUE, out, FALSE)
    ELSE IF file[pos + 1] = <<>> THEN ScanLoop(pos + 1, output_idx, out)
    ELSE LET parsed == {ParseLogLine(file[pos + 1], parsed_format)}
         IN  IF parsed = {<<>>}
             THEN IF ~raw_mode THEN ScanLoop(pos + 1, output_idx, out)
                  ELSE ScanLoop(pos + 1, output_idx + 1, Append(out, Row(pos + 1, TRUE, current_line_number)))
             ELSE IF \E values \in parsed : RowAborts(values)
             THEN Batch(pos + 1, FALSE, out, TRUE)
             ELSE ScanLoop(pos + 1, output_idx + 1, Append(out, Row(pos + 1, FALSE, current_line_number)))

\* httpd_log_file_reader.cpp lines 358-367, called by the one thread that scans
TryInitializeScan ==
    /\ pc = "open"
    /\ ~(scan_initialized \/ finished)
    /\ scan_initialized' = TRUE
    /\ pc' = "scanning"
    /\ UNCHANGED <<extVars, bindVars, columns, file, read_pos, finished, current_line_number, rows, lineVars, threadVars>>

\* httpd_log_file_reader.cpp lines 369-419
Scan ==
    /\ pc = "scanning"
    /\ IF finished
       THEN pc' = "done" /\ UNCHANGED <<read_pos, finished, rows>>
       ELSE \E batch \in {ScanLoop(read_pos, 0, <<>>)} :
                /\ read_pos' = batch.read_pos
                /\ finished' = batch.finished
                /\ rows' = IF batch.aborted THEN rows ELSE rows \o batch.rows
                /\ pc' = IF batch.aborted THEN "error" ELSE pc
    /\ UNCHANGED <<extVars, bindVars, columns, file, scan_initialized, current_line_number, lineVars, threadVars>>

NextScan ==
    \/ \E f \in ScanFormats, raw \in BOOLEAN, tie_order \in TieOrders : BindReader(f, raw, tie_order)
    \/ \E content \in Files : CreateReader(content)
    \/ TryInitializeScan
    \/ Scan

SpecScan == Init /\ [][NextScan]_vars

\* ------------------------------------------------------------------------
\* Worker threads calling TryInitializeScan on one reader.  scan_initialized and
\* finished are std::atomic<bool>: every load and every store is one step.
\* ------------------------------------------------------------------------
NumThreads == 2

MaxCalls == 2

Threads == 1..NumThreads

SampleFormat == <<"%", "h">>

Thread(p, n, l, r) == [pc |-> p, calls |-> n, line |-> l, result |-> r]

\* a reader has been bound and constructed over some file
InitThreads ==
    /\ pc = "open"
    /\ raw_mode \in BOOLEAN
    /\ parsed_format = ParseFormatString(SampleFormat, "stable")
    /\ names = GenerateSchema(parsed_format, raw_mode)
    /\ columns = ReaderColumns(parsed_format, raw_mode)
    /\ file \in Files
    /\ read_pos = 0
    /\ scan_initialized = FALSE
    /\ finished = FALSE
    /\ current_line_number = 0
    /\ rows = <<>>
    /\ line = <<>>
    /\ parsed_values = <<>>
    /\ parse_error = FALSE
    /\ output = <<>>
    /\ threads = [t \in Threads |-> Thread("idle", 0, <<>>, <<>>)]
    /\ true_returns = 0
    /\ late_true = FALSE
    /\ matches = <<>>
    /\ writers = {}
    /\ ExtIdle

\* httpd_log_file_reader.cpp line 362, left operand: a call begins and loads scan_initialized
LoadScanInitialized(t) ==
    /\ threads[t].pc = "idle"
    /\ threads[t].calls < MaxCalls
    /\ threads' = [threads EXCEPT ![t].calls = @ + 1,
                                  ![t].pc = IF scan_initialized THEN "idle" ELSE "load_finished"]
    /\ UNCHANGED <<extVars, pc, bindVars, readerVars, lineVars, true_returns, late_true, matches, writers>>

\* httpd_log_file_reader.cpp line 362, right operand: the call loads finished
LoadFinished(t) ==
    /\ threads[t].pc = "load_finished"
    /\ threads' = [threads EXCEPT ![t].pc = IF finished THEN "idle" ELSE "store"]
    /\ UNCHANGED <<extVars, pc, bindVars, readerVars, lineVars, true_returns, late_true, matches, writers>>

\* httpd_log_file_reader.cpp lines 365-366: the call stores scan_initialized and returns true
StoreScanInitialized(t) ==
    /\ threads[t].pc = "store"
    /\ scan_initialized' = TRUE
    /\ true_returns' = true_returns + 1
    /\ late_true' = (late_true \/ finished)
    /\ threads' = [threads EXCEPT ![t].pc = "scan"]
    /\ UNCHANGED <<extVars, pc, bindVars, columns, file, read_pos, finished, current_line_number, rows, lineVars,
                   matches, writers>>

\* httpd_log_file_reader.cpp lines 369-419: a thread whose call returned true scans a batch
ThreadScan(t) ==
    /\ threads[t].pc = "scan"
    /\ IF finished
       THEN threads' = [threads EXCEPT ![t].pc = "idle"] /\ UNCHANGED <<read_pos, finished, rows>>
       ELSE \E batch \in {ScanLoop(read_pos, 0, <<>>)} :
                /\ read_pos' = batch.read_pos
                /\ finished' = batch.finished
                /\ rows' = IF batch.aborted THEN rows ELSE rows \o batch.rows
                /\ threads' = IF batch.aborted THEN [threads EXCEPT ![t].pc = "error"] ELSE threads
    /\ UNCHANGED <<extVars, pc, bindVars, columns, file, scan_initialized, current_line_number, lineVars,
                   true_returns, late_true, matches, writers>>

NextThreads ==
    \/ \E t \in Threads : LoadScanInitialized(t)
    \/ \E t \in Threads : LoadFinished(t)
    \/ \E t \in Threads : StoreScanInitialized(t)
    \/ \E t \in Threads : ThreadScan(t)

SpecThreads == InitThreads /\ [][NextThreads]_vars

\* ------------------------------------------------------------------------
\* Two threads, each scanning its own file, parse lines with the one ParsedFormat
\* of the bind data.  ParseLogLine (httpd_log_format_parser.cpp lines 799-836)
\* is split at its accesses to the buffers of the ParsedFormat.
\* ------------------------------------------------------------------------
SharedLines == {<<"a">>, <<"[", "1", "]">>, <<"1", "2", "3", "4", "5", "6">>, <<"a", " ", "a">>}

Garbage == <<"?">>

Slot(text, owner) == [text |-> text, owner |-> owner]

InitShared ==
    /\ pc = "open"
    /\ raw_mode = FALSE
    /\ parsed_format = ParseFormatString(SampleFormat, "stable")
    /\ names = GenerateSchema(parsed_format, raw_mode)
    /\ columns = ReaderColumns(parsed_format, raw_mode)
    /\ file = <<>>
    /\ read_pos = 0
    /\ scan_initialized = FALSE
    /\ finished = FALSE
    /\ current_line_number = 0
    /\ rows = <<>>
    /\ line = <<>>
    /\ parsed_values = <<>>
    /\ parse_error = FALSE
    /\ output = <<>>
    /\ threads = [t \in Threads |-> Thread("idle", 0, <<>>, <<>>)]
    /\ true_returns = 0
    /\ late_true = FALSE
    /\ matches = [g \in 1..NumberOfCapturingGroups(parsed_format.regex_pattern) |-> Slot(<<>>, 0)]
    /\ writers = {}
    /\ ExtIdle

\* httpd_log_file_reader.cpp lines 384-397: Scan reads a line of its own file and calls ParseLogLine
ReadOwnLine(t, l) ==
    /\ threads[t].pc = "idle"
    /\ threads[t].calls < 1
    /\ threads' = [threads EXCEPT ![t] = Thread("bind", @.calls + 1, l, <<>>)]
    /\ UNCHANGED <<extVars, pc, bindVars, readerVars, lineVars, true_returns, late_true, matches, writers>>

\* lines 817-819: parsed_format.args[i] = &parsed_format.matches[i]
BindArgs(t) ==
    /\ threads[t].pc = "bind"
    /\ writers' = writers \cup {t}
    /\ threads' = [threads EXCEPT ![t].pc = "match"]
    /\ UNCHANGED <<extVars, pc, bindVars, readerVars, lineVars, true_returns, late_true, matches>>

\* lines 821-825: FullMatchN stores the captures of the thread's line through arg_ptrs
FullMatch(t) ==
    /\ threads[t].pc = "match"
    /\ \E m \in {RegexMatch(parsed_format.regex_pattern, threads[t].line, TRUE)} :
           IF m.ok
           THEN /\ matches' = [g \in DOMAIN matches |->
                                  Slot(Captures(parsed_format.regex_pattern, threads[t].line, m.ends)[g], t)]
                /\ writers' = writers \cup {t}
                /\ threads' = [threads EXCEPT ![t].pc = "copy"]
           ELSE /\ threads' = [threads EXCEPT ![t].pc = "returned"]
                /\ UNCHANGED <<matches, writers>>
    /\ UNCHANGED <<extVars, pc, bindVars, readerVars, lineVars, true_returns, late_true>>

\* a slot filled by another thread whose line string has gone out of scope dangles
Dangling(t) ==
    \E g \in DOMAIN matches :
        matches[g].owner \notin {0, t} /\ threads[matches[g].owner].pc = "returned"

\* lines 830-835: the slots are copied into the result
CopyOut(t) ==
    /\ threads[t].pc = "copy"
    /\ \E r \in {[g \in DOMAIN matches |-> matches[g].text]} \cup
                (IF Dangling(t) THEN {[g \in DOMAIN matches |-> Garbage]} ELSE {}) :
           threads' = [threads EXCEPT ![t].pc = "returned", ![t].result = r]
    /\ UNCHANGED <<extVars, pc, bindVars, readerVars, lineVars, true_returns, late_true, matches, writers>>

NextShared ==
    \/ \E t \in Threads, l \in SharedLines : ReadOwnLine(t, l)
    \/ \E t \in Threads : BindArgs(t)
    \/ \E t \in Threads : FullMatch(t)
    \/ \E t \in Threads : CopyOut(t)

SpecShared == InitShared /\ [][NextShared]_vars

\* ------------------------------------------------------------------------
\* Properties of the compiled format and of the extraction of one line
\* ------------------------------------------------------------------------
Compiled == pc # "start"

Extracting == pc \in {"parsed", "row", "error"} /\ ~parse_error

\* index of the capture group GenerateRegexPattern emitted for field f, -1 when
\* the field has no capturing group of its own
CaptureIndex(pattern, f) ==
    LET own == {i \in 1..Len(pattern) : pattern[i].field = f /\ pattern[i].cap}
    IN  IF own = {} THEN -1
        ELSE LET i == CHOOSE x \in own : TRUE
             IN  Cardinality({j \in 1..(i - 1) : pattern[j].cap})

\* C1: on a matching line, the index at which WriteColumnValue and Function read
\* the value of a non-skipped field is the index of that field's own capture group.
C1_ExtractorReadsOwnCapture ==
    Extracting =>
        /\ \A p \in 0..(Len(columns) - 1) :
               LET cell == WriteColumnValue(parsed_format, raw_mode, p, FALSE)
               IN  cell.field >= 0 =>
                       cell.value_idx = CaptureIndex(parsed_format.regex_pattern, cell.field)
        /\ LET row == FunctionRow(parsed_format, raw_mode, FALSE)
           IN  \A k \in 1..Len(row) :
                   row[k].field >= 0 =>
                       row[k].value_idx = CaptureIndex(parsed_format.regex_pattern, row[k].field)

IsTimestampMember(field) == field.directive = <<"%", "t">> /\ field.timestamp_group_id >= 0

\* C2: the regex has one capturing group per non-skipped field and per skipped %t
\* member of a timestamp group; %t members capture, other skipped fields do not.
C2_CapturingGroupCount ==
    Compiled =>
        LET fields == parsed_format.fields
            pattern == parsed_format.regex_pattern
            kept == {i \in 1..Len(fields) : ~fields[i].should_skip}
            members == {i \in 1..Len(fields) : fields[i].should_skip /\ IsTimestampMember(fields[i])}
        IN  /\ NumberOfCapturingGroups(pattern) = Cardinality(kept) + Cardinality(members)
            /\ \A n \in 1..Len(pattern) :
                   pattern[n].field >= 0 =>
                       LET field == fields[pattern[n].field + 1]
                       IN  /\ IsTimestampMember(field) => pattern[n].cap
                           /\ (field.should_skip /\ ~IsTimestampMember(field)) => ~pattern[n].cap

\* C3: the column names GenerateSchema returns are pairwise different.
C3_NamesUnique ==
    Compiled => \A i, j \in 1..Len(names) : i # j => names[i].name # names[j].name

RowWritten == pc = "parsed" /\ Len(output) = Len(columns)

\* C4: position by position, the schema of GenerateSchema, the columns list of the
\* reader and the column WriteColumnValue fills are the same column.
C4_SchemaPositionsAgree ==
    RowWritten =>
        /\ Len(names) = Len(columns)
        /\ \A p \in 1..Len(names) :
               p <= Len(columns) =>
                   /\ columns[p] = names[p]
                   /\ CellColumn(parsed_format, output[p]) = names[p]

LineParsed == pc \in {"parsed", "skipped"} /\ output = <<>>

HasCaptures == NumberOfCapturingGroups(parsed_format.regex_pattern) > 0

PrefixMatches == RegexMatch(parsed_format.regex_pattern, line, FALSE).ok

WholeLineMatches == RegexMatch(parsed_format.regex_pattern, line, TRUE).ok

\* C7 as stated: a line that begins with a match of the pattern is extracted,
\* whatever follows the match.
C7_TrailingContentTolerated ==
    (LineParsed /\ HasCaptures /\ PrefixMatches) => parsed_values # <<>>

\* C7 amended: ParseLogLine applies the pattern to the whole line; a line whose
\* matching prefix is followed by characters the pattern cannot absorb is a
\* parse failure, and captures are returned only for a match of the whole line.
C7_WholeLineMatchRequired ==
    (LineParsed /\ HasCaptures) =>
        /\ parsed_values # <<>> => WholeLineMatches
        /\ (PrefixMatches /\ ~WholeLineMatches) => (parse_error /\ parsed_values = <<>>)

\* a matching prefix followed by trailing characters has been parsed
C7_Witness == LineParsed /\ HasCaptures /\ PrefixMatches /\ ~WholeLineMatches /\ parse_error

\* the format with every status-condition prefix ('!'?, digits and commas after '%') removed
RECURSIVE SkipCondition(_, _)
SkipCondition(s, pos) ==
    IF pos < Len(s) /\ (IsDigit(At(s, pos)) \/ At(s, pos) = ",") THEN SkipCondition(s, pos + 1) ELSE pos

RECURSIVE WithoutConditions(_, _)
WithoutConditions(s, pos) ==
    IF pos >= Len(s) THEN <<>>
    ELSE IF At(s, pos) = "%"
         THEN LET p1 == IF pos + 1 < Len(s) /\ At(s, pos + 1) = "!" THEN pos + 2 ELSE pos + 1
              IN  <<"%">> \o WithoutConditions(s, SkipCondition(s, p1))
         ELSE <<At(s, pos)>> \o WithoutConditions(s, pos + 1)

FieldList(fields) ==
    [i \in 1..Len(fields) |->
        <<fields[i].directive, fields[i].modifier, fields[i].column_name, fields[i].type>>]

HasCondition == WithoutConditions(parsed_format.original_format_str, 0) # parsed_format.original_format_str

\* C8: a format compiles to the same field list and the same regex as the format
\* with its status-condition prefixes removed.
C8_ConditionIgnored ==
    (pc = "bound" /\ HasCondition) =>
        \E tie_order \in TieOrders :
            LET plain == ParseFormatString(WithoutConditions(parsed_format.original_format_str, 0), tie_order)
            IN  /\ FieldList(plain.fields) = FieldList(parsed_format.fields)
                /\ plain.regex_pattern = parsed_format.regex_pattern

\* ------------------------------------------------------------------------
\* Properties of the scan of one file
\* ------------------------------------------------------------------------
NonEmptyLines == {i \in 1..Len(file) : file[i] # <<>>}

MatchingLines == {i \in NonEmptyLines : RegexMatch(parsed_format.regex_pattern, file[i], TRUE).ok}

\* C5: a complete scan emits one row per non-empty line in raw mode and one row per
\* non-empty line the regex matches otherwise; no row comes from an empty line and
\* the scan aborts on no line the regex does not match.
C5_RowCount ==
    /\ pc = "done" =>
           Len(rows) = IF raw_mode THEN Cardinality(NonEmptyLines) ELSE Cardinality(MatchingLines)
    /\ \A k \in 1..Len(rows) : rows[k].source \in NonEmptyLines
    /\ pc = "error" /\ scan_initialized => read_pos \in MatchingLines

\* C6: in raw mode the line_number of a row is the 1-based position of its line in the file.
C6_LineNumber ==
    raw_mode => \A k \in 1..Len(rows) : rows[k].line_number = rows[k].source

\* ------------------------------------------------------------------------
\* Properties of concurrent use
\* ------------------------------------------------------------------------
\* C9: of all TryInitializeScan calls on one reader at most one returns true, and
\* none returns true once finished is set.
C9_SingleInitializer ==
    /\ true_returns <= 1
    /\ ~late_true

\* C10: the capture buffers of the shared ParsedFormat are written by at most one
\* thread, and a ParseLogLine call returns the captures of its own line.
C10_BuffersNotShared ==
    /\ Cardinality(writers) <= 1
    /\ \A t \in DOMAIN threads :
           threads[t].pc = "returned" => threads[t].result = ParseLogLine(threads[t].line, parsed_format)

\* ------------------------------------------------------------------------
\* The buffered line reader (httpd_log_buffered_reader.cpp)
\* ------------------------------------------------------------------------
MaxContentLen == 4

MaxBufferSize == 3

LF == "\n"

CR == "\r"

ContentChars == {"a", CR, LF}

Contents == UNION {[1..k -> ContentChars] : k \in 0..MaxContentLen}

\* the private fields of a reader, as one value the member functions transform
BufferedReader(h, b, off, size, eof) ==
    [file_handle |-> h, buffer |-> b, buffer_offset |-> off, buffer_size |-> size, eof_reached |-> eof]

\* FileHandle::Read(buf, n): the bytes from the position on, at most n of them;
\* fewer than n only when the file ends
Read(h, n) == SubStr(h.data, h.pos, n)

\* a refill that leaves buffer_offset where it was
RefillBuffer_KeepOffset(r, cap) ==
    IF r.eof_reached
    THEN [r EXCEPT !.buffer_size = 0]
    ELSE LET got == Read(r.file_handle, cap)
         IN  BufferedReader([r.file_handle EXCEPT !.pos = @ + Len(got)],
                            got \o SubStrFrom(r.buffer, Len(got)),
                            r.buffer_offset, Len(got), Len(got) < cap)

\* HttpdLogBufferedReader::RefillBuffer
RefillBuffer(r, cap) ==
    IF r.eof_reached
    THEN [r EXCEPT !.buffer_size = 0]
    ELSE LET got == Read(r.file_handle, cap)
         IN  BufferedReader([r.file_handle EXCEPT !.pos = @ + Len(got)],
                            got \o SubStrFrom(r.buffer, Len(got)),
                            0, Len(got), Len(got) < cap)

\* the constructor: the file is opened, the buffer allocated, the first block read
NewBufferedReader(content, cap) ==
    RefillBuffer(BufferedReader(FileHandle(content, 0), [i \in 1..cap |-> NUL], 0, 0, FALSE), cap)

ReadLineResult(ok, res, r) == [ok |-> ok, result |-> res, reader |-> r]

\* the loop of HttpdLogBufferedReader::ReadLine, from a reader state and the
\* characters accumulated so far
RECURSIVE ReadLineLoop(_, _, _)
ReadLineLoop(r, cap, acc) ==
    IF r.buffer_offset < r.buffer_size
    THEN LET c == r.buffer[r.buffer_offset + 1]
             r1 == [r EXCEPT !.buffer_offset = @ + 1]
         IN  IF c = LF
             THEN ReadLineResult(TRUE,
                                 IF acc # <<>> /\ acc[Len(acc)] = CR THEN SubSeq(acc, 1, Len(acc) - 1) ELSE acc,
                                 r1)
             ELSE ReadLineLoop(r1, cap, Append(acc, c))
    ELSE IF r.buffer_size = 0 \/ (r.eof_reached /\ r.buffer_offset >= r.buffer_size)
         THEN ReadLineResult(acc # <<>>, acc, r)
         ELSE ReadLineLoop(RefillBuffer(r, cap), cap, acc)

ThisReader == BufferedReader(file_handle, buffer, buffer_offset, buffer_size, eof_reached)

\* a reader has been constructed over some file with some buffer size
InitReader ==
    /\ PipelineIdle
    /\ BUFFER_SIZE \in 1..MaxBufferSize
    /\ \E content \in Contents :
         \E r \in {NewBufferedReader(content, BUFFER_SIZE)} :
            /\ file_handle = r.file_handle
            /\ buffer = r.buffer
            /\ buffer_offset = r.buffer_offset
            /\ buffer_size = r.buffer_size
            /\ eof_reached = r.eof_reached
    /\ result = <<>>
    /\ returned = "none"
    /\ lines_read = <<>>
    /\ OptIdle
    /\ written = <<>>
    /\ caches = NoCaches

\* HttpdLogBufferedReader::ReadLine, one call
ReadLine ==
    /\ \E out \in {ReadLineLoop(ThisReader, BUFFER_SIZE, <<>>)} :
         /\ file_handle' = out.reader.file_handle
         /\ buffer' = out.reader.buffer
         /\ buffer_offset' = out.reader.buffer_offset
         /\ buffer_size' = out.reader.buffer_size
         /\ eof_reached' = out.reader.eof_reached
         /\ result' = out.result
         /\ returned' = IF out.ok THEN "true" ELSE "false"
         /\ lines_read' = IF out.ok THEN Append(lines_read, out.result) ELSE lines_read
    /\ UNCHANGED <<pipeVars, BUFFER_SIZE, optVars, written, caches>>

NextReader == ReadLine

SpecReader == InitReader /\ [][NextReader]_vars

\* the content split at each LF, one trailing CR removed from each terminated
\* piece, a final unterminated non-empty piece included
RECURSIVE SplitLines(_)
SplitLines(s) ==
    LET nl == Find(s, LF, 0)
    IN  IF nl = NPOS
        THEN IF s = <<>> THEN <<>> ELSE <<s>>
        ELSE LET piece == SubStr(s, 0, nl)
                 stripped == IF piece # <<>> /\ piece[Len(piece)] = CR
                             THEN SubSeq(piece, 1, Len(piece) - 1) ELSE piece
             IN  <<stripped>> \o SplitLines(SubStrFrom(s, nl + 1))

IsPrefix(a, b) == Len(a) <= Len(b) /\ SubSeq(b, 1, Len(a)) = a

Exhausted == file_handle.pos = Len(file_handle.data) /\ buffer_offset >= buffer_size

\* C11: the strings for which ReadLine returned true are, in order, the pieces
\* of the content split at each LF (one trailing CR removed from a terminated
\* piece, a final unterminated non-empty piece included); a call returns false
\* only when the data is exhausted, nothing was accumulated and every piece has
\* been returned; a call that returns true returns the next piece
C11_ReadLineSplitsContent ==
    /\ IsPrefix(lines_read, SplitLines(file_handle.data))
    /\ returned = "false" => /\ lines_read = SplitLines(file_handle.data)
                           /\ Exhausted
                           /\ result = <<>>
    /\ returned = "true" => lines_read # <<>> /\ result = lines_read[Len(lines_read)]

\* a file whose size is a multiple of the buffer size, with a CR LF pair across
\* a refill and an unterminated last piece, has been read to the end
C11_Witness ==
    /\ returned = "false"
    /\ Len(file_handle.data) = 2 * BUFFER_SIZE
    /\ BUFFER_SIZE = 2
    /\ file_handle.data[2] = CR
    /\ file_handle.data[3] = LF
    /\ file_handle.data[4] = "a"
    /\ Len(lines_read) = 2

\* ------------------------------------------------------------------------
\* BindReader over its options (httpd_log_multi_file_info.cpp lines 90-234)
\* ------------------------------------------------------------------------
S_combined == <<"c", "o", "m", "b", "i", "n", "e", "d">>

S_common == <<"c", "o", "m", "m", "o", "n">>

S_unknown == <<"u", "n", "k", "n", "o", "w", "n">>

S_custom == <<"c", "u", "s", "t", "o", "m">>

S_default == <<"d", "e", "f", "a", "u", "l", "t">>

S_inline == <<"i", "n", "l", "i", "n", "e">>

S_named == <<"n", "a", "m", "e", "d">>

S_access == <<"a", "c", "c", "e", "s", "s">>

S_error == <<"e", "r", "r", "o", "r">>

combined_format == <<"%", "h", " ", "%", "l", " ", "%", "u", " ", "%", "t", " ", "\"", "%", "r", "\"", " ", "%", ">", "s", " ", "%", "b", " ", "\"", "%", "{", "R", "e", "f", "e", "r", "e", "r", "}", "i", "\"", " ", "\"", "%", "{", "U", "s", "e", "r", "-", "a", "g", "e", "n", "t", "}", "i", "\"">>

common_format == <<"%", "h", " ", "%", "l", " ", "%", "u", " ", "%", "t", " ", "\"", "%", "r", "\"", " ", "%", ">", "s", " ", "%", "b">>

\* no two fields of these formats share a column name: the order of the sort
\* in ResolveColumnNameCollisions has no effect on them
combined_parsed == ParseFormatString(combined_format, "stable")

common_parsed == ParseFormatString(common_format, "stable")

\* ReadSampleLines / get_sample_lines: the first non-empty lines, at most max_lines
RECURSIVE ReadSampleLines(_, _, _)
ReadSampleLines(lines, i, max_lines) ==
    IF i > Len(lines) \/ max_lines = 0 THEN <<>>
    ELSE IF lines[i] = <<>> THEN ReadSampleLines(lines, i + 1, max_lines)
    ELSE <<lines[i]>> \o ReadSampleLines(lines, i + 1, max_lines - 1)

get_sample_lines == ReadSampleLines(file, 1, 10)

\* the number of non-empty sample lines ParseLogLine parses with the format
try_format(sample_lines, parsed) ==
    Cardinality({i \in 1..Len(sample_lines) :
                    sample_lines[i] # <<>> /\ ParseLogLine(sample_lines[i], parsed) # <<>>})

\* matches > 0 && matches >= static_cast<int>(sample_lines.size()) / 2
Qualifies(match_count, sample_lines) == match_count > 0 /\ match_count >= Len(sample_lines) \div 2

Detected(format, parsed) == [format |-> format, parsed_format |-> parsed]

\* HttpdLogFormatParser::DetectFormat
DetectFormat(sample_lines) ==
    IF sample_lines = <<>> THEN Detected(S_unknown, EmptyParsedFormat(<<>>))
    ELSE IF Qualifies(try_format(sample_lines, combined_parsed), sample_lines)
    THEN Detected(S_combined, combined_parsed)
    ELSE IF Qualifies(try_format(sample_lines, common_parsed), sample_lines)
    THEN Detected(S_common, common_parsed)
    ELSE Detected(S_unknown, EmptyParsedFormat(<<>>))

ConfigEntry(log_type, type, nickname, format_string, line_number) ==
    [log_type |-> log_type, format_type |-> type, nickname |-> nickname,
     format_string |-> format_string, line_number |-> line_number]

\* std::sort of the entries by line_number
RECURSIVE SortByLineNumber(_)
SortByLineNumber(entries) ==
    IF entries = <<>> THEN <<>>
    ELSE LET i == CHOOSE x \in 1..Len(entries) :
                      \A y \in 1..Len(entries) :
                          \/ entries[x].line_number < entries[y].line_number
                          \/ (entries[x].line_number = entries[y].line_number /\ x <= y)
         IN  <<entries[i]>> \o
             SortByLineNumber(SubSeq(entries, 1, i - 1) \o SubSeq(entries, i + 1, Len(entries)))

\* the entries of one class with a format string, in order
RECURSIVE EntriesOfType(_, _, _)
EntriesOfType(entries, i, type) ==
    IF i > Len(entries) THEN <<>>
    ELSE (IF entries[i].format_type = type /\ entries[i].format_string # <<>>
          THEN <<entries[i]>> ELSE <<>>) \o EntriesOfType(entries, i + 1, type)

\* the entries of the "named" class with the wanted nickname, in order
RECURSIVE EntriesNamed(_, _, _)
EntriesNamed(entries, i, wanted) ==
    IF i > Len(entries) THEN <<>>
    ELSE (IF entries[i].format_type = S_named /\ entries[i].nickname = wanted /\
             entries[i].format_string # <<>>
          THEN <<entries[i]>> ELSE <<>>) \o EntriesNamed(entries, i + 1, wanted)

\* the order in which the loops of lines 151-164 and 173-190 try the entries
TryOrder(entries, wanted) ==
    IF wanted # <<>> THEN EntriesNamed(entries, 1, wanted)
    ELSE EntriesOfType(entries, 1, S_default) \o EntriesOfType(entries, 1, S_inline) \o
         EntriesOfType(entries, 1, S_named)

Found(found, entry, parsed) == [found |-> found, entry |-> entry, parsed_format |-> parsed]

NoEntry == ConfigEntry(<<>>, <<>>, <<>>, <<>>, 0)

\* the first entry, in trying order, whose format qualifies on the sample lines
RECURSIVE FirstQualifying(_, _, _, _)
FirstQualifying(tries, i, sample_lines, tie_order) ==
    IF i > Len(tries) THEN Found(FALSE, NoEntry, EmptyParsedFormat(<<>>))
    ELSE CHOOSE r \in {IF Qualifies(try_format(sample_lines, parsed), sample_lines)
                       THEN Found(TRUE, tries[i], parsed)
                       ELSE FirstQualifying(tries, i + 1, sample_lines, tie_order) :
                       parsed \in {ParseFormatString(tries[i].format_string, tie_order)}} : TRUE

\* raw mode left as the caller gave it
DetectedRawMode_AsGiven(detected_format, raw) == raw

\* lines 220-225: an unknown format forces raw mode
DetectedRawMode(detected_format, raw) == IF detected_format = S_unknown THEN TRUE ELSE raw

Bound(path, error, parsed, str, type, raw) ==
    [path |-> path, error |-> error, parsed_format |-> parsed, format_str |-> str,
     format_type |-> type, raw_mode |-> raw]

\* the branch of lines 149-194 taken: a nickname is looked up, or the classes are tried in order
ConfPath == IF format_type # <<>> THEN "conf_nickname" ELSE "conf_order"

\* what BindReader leaves in the bind data, by the branch its options select
BindOutcome(tie_order) ==
    IF format_str # <<>>
    THEN Bound("format_str", FALSE, ParseFormatString(format_str, tie_order), format_str,
               IF format_type = <<>> THEN S_custom ELSE format_type, raw_mode)
    ELSE IF conf # <<>>
    THEN CHOOSE b \in {IF hit.found
                       THEN Bound(ConfPath, FALSE, hit.parsed_format, hit.entry.format_string,
                                  IF format_type # <<>> THEN format_type
                                  ELSE IF hit.entry.nickname = <<>> THEN hit.entry.format_type
                                  ELSE hit.entry.nickname,
                                  raw_mode)
                       ELSE Bound(ConfPath, TRUE, parsed_format, format_str, format_type, raw_mode) :
                       hit \in {FirstQualifying(TryOrder(SortByLineNumber(conf_entries), format_type), 1,
                                                get_sample_lines, tie_order)}} : TRUE
    ELSE IF format_type # <<>>
    THEN IF format_type = S_common
         THEN Bound("builtin", FALSE, ParseFormatString(common_format, tie_order), common_format,
                    format_type, raw_mode)
         ELSE IF format_type = S_combined
         THEN Bound("builtin", FALSE, ParseFormatString(combined_format, tie_order), combined_format,
                    format_type, raw_mode)
         ELSE Bound("builtin", TRUE, parsed_format, format_str, format_type, raw_mode)
    ELSE CHOOSE b \in {Bound("detect", FALSE, d.parsed_format,
                             IF d.format = S_common THEN common_format
                             ELSE IF d.format = S_combined THEN combined_format ELSE <<>>,
                             d.format, DetectedRawMode(d.format, raw_mode)) :
                       d \in {DetectFormat(get_sample_lines)}} : TRUE

\* HttpdLogMultiFileInfo::BindReader: the format is selected from the options and
\* the schema generated; a BinderException leaves no schema
BindReaderFromOptions ==
    /\ pc = "start"
    /\ \E tie_order \in TieOrders :
         \E b \in {BindOutcome(tie_order)} :
            /\ bind_path' = b.path
            /\ bind_error' = b.error
            /\ parsed_format' = b.parsed_format
            /\ format_str' = b.format_str
            /\ format_type' = b.format_type
            /\ raw_mode' = b.raw_mode
            /\ names' = IF b.error THEN names ELSE GenerateSchema(b.parsed_format, b.raw_mode)
            /\ pc' = IF b.error THEN "failed" ELSE "bound"
    /\ UNCHANGED <<readerVars, lineVars, threadVars, bufVars, conf, conf_entries, written, caches>>

\* ------------------------------------------------------------------------
\* Bind without format_str and conf, then the scan of the file
\* ------------------------------------------------------------------------
MaxSampleLines == 3

CombinedLine == <<"h", " ", "l", " ", "u", " ", "[", "t", "]", " ", "\"", "r", "\"", " ", "2", "0", "0", " ", "5", " ", "\"", "f", "\"", " ", "\"", "a", "\"">>

CommonLine == <<"h", " ", "l", " ", "u", " ", "[", "t", "]", " ", "\"", "r", "\"", " ", "2", "0", "0", " ", "5">>

GarbageLine == <<"a">>

DetectLineKinds == {CombinedLine, CommonLine, GarbageLine, <<>>}

DetectFiles == {<<>>} \cup SeqsUpTo(DetectLineKinds, MaxSampleLines)

\* the options of a call without format_str and conf, over some file
InitDetect ==
    /\ pc = "start"
    /\ raw_mode \in BOOLEAN
    /\ parsed_format = NoFormat
    /\ names = <<>>
    /\ columns = <<>>
    /\ file \in DetectFiles
    /\ read_pos = 0
    /\ scan_initialized = FALSE
    /\ finished = FALSE
    /\ current_line_number = 0
    /\ rows = <<>>
    /\ line = <<>>
    /\ parsed_values = <<>>
    /\ parse_error = FALSE
    /\ output = <<>>
    /\ threads = <<>>
    /\ true_returns = 0
    /\ late_true = FALSE
    /\ matches = <<>>
    /\ writers = {}
    /\ BufIdle
    /\ written = <<>>
    /\ caches = NoCaches
    /\ format_type \in {<<>>, S_common, <<"x">>}
    /\ format_str = <<>>
    /\ conf = <<>>
    /\ conf_entries = <<>>
    /\ bind_error = FALSE
    /\ bind_path = "none"

NextDetect ==
    \/ BindReaderFromOptions
    \/ CreateReader(file)
    \/ TryInitializeScan
    \/ Scan

SpecDetect == InitDetect /\ [][NextDetect]_vars

\* the sample lines the bind read, and of them those a format parses
SampleCount == Len(get_sample_lines)

\* the least number of lines that is at least half of n
CeilHalf(n) == (n + 1) \div 2

CombinedMatches == try_format(get_sample_lines, combined_parsed)

CommonMatches == try_format(get_sample_lines, common_parsed)

\* C12: with n > 0 sample lines, detection returns combined when at least
\* ceil(n/2) of them match Combined, otherwise common when at least ceil(n/2)
\* match Common, otherwise unknown
C12_DetectByMajority ==
    bind_path = "detect" /\ SampleCount > 0 =>
        format_type = IF CombinedMatches >= CeilHalf(SampleCount) THEN S_combined
                      ELSE IF CommonMatches >= CeilHalf(SampleCount) THEN S_common
                      ELSE S_unknown

\* the same with the threshold the code computes, sample_lines.size() / 2 rounded down
DetectionWithFloor ==
    bind_path = "detect" /\ SampleCount > 0 =>
        format_type = IF CombinedMatches > 0 /\ CombinedMatches >= SampleCount \div 2 THEN S_combined
                      ELSE IF CommonMatches > 0 /\ CommonMatches >= SampleCount \div 2 THEN S_common
                      ELSE S_unknown

RawOnlySchema ==
    <<Col(N_log_file, "VARCHAR"), Col(N_line_number, "BIGINT"),
      Col(N_parse_error, "BOOLEAN"), Col(N_raw_line, "VARCHAR")>>

\* the positions of the reader's columns with the given name
ColumnsNamed(name) == {p \in 1..Len(columns) : columns[p].name = name}

\* the reader writes its column `name` through the branch `label` of WriteColumnValue
WrittenAs(name, label) ==
    /\ ColumnsNamed(name) # {}
    /\ \A p \in ColumnsNamed(name) : WriteColumnValue(parsed_format, raw_mode, p - 1, TRUE).column = label

MaxConfEntries == 2

ConfLineKinds == {<<"a">>, <<"a", " ", "a">>}

ConfFiles == {<<>>} \cup SeqsUpTo(ConfLineKinds, MaxSampleLines)

ConfFormats == {<<"%", "h">>, <<"%", "h", " ", "%", "l">>}

\* what a conf line can contribute: a format of one class, a nickname for "named"
EntryKinds ==
    {ConfigEntry(S_access, S_default, <<>>, f, 0) : f \in ConfFormats \cup {<<>>}} \cup
    {ConfigEntry(S_access, S_inline, <<>>, f, 0) : f \in ConfFormats} \cup
    {ConfigEntry(S_access, S_named, n, f, 0) : n \in {<<"n">>, <<"m">>}, f \in ConfFormats}

\* the entries of a conf file, in the order of their lines
ConfEntrySeqs ==
    {<<>>} \cup
    {[i \in 1..Len(kinds) |-> [kinds[i] EXCEPT !.line_number = i]] :
        kinds \in SeqsUpTo(EntryKinds, MaxConfEntries)}

InitConf ==
    /\ pc = "start"
    /\ raw_mode = FALSE
    /\ parsed_format = NoFormat
    /\ names = <<>>
    /\ columns = <<>>
    /\ file \in ConfFiles
    /\ read_pos = 0
    /\ scan_initialized = FALSE
    /\ finished = FALSE
    /\ current_line_number = 0
    /\ rows = <<>>
    /\ line = <<>>
    /\ parsed_values = <<>>
    /\ parse_error = FALSE
    /\ output = <<>>
    /\ threads = <<>>
    /\ true_returns = 0
    /\ late_true = FALSE
    /\ matches = <<>>
    /\ writers = {}
    /\ BufIdle
    /\ written = <<>>
    /\ caches = NoCaches
    /\ format_type \in {<<>>, <<"n">>}
    /\ format_str = <<>>
    /\ conf = <<"c">>
    /\ conf_entries \in ConfEntrySeqs
    /\ bind_error = FALSE
    /\ bind_path = "none"

NextConf == BindReaderFromOptions

SpecConf == InitConf /\ [][NextConf]_vars

\* the place of a class in the trying order
ClassRank(type) == IF type = S_default THEN 0 ELSE IF type = S_inline THEN 1 ELSE 2

\* e is tried before f: an earlier class, or the same class and an earlier line
TriedBefore(e, f) ==
    \/ ClassRank(e.format_type) < ClassRank(f.format_type)
    \/ (ClassRank(e.format_type) = ClassRank(f.format_type) /\ e.line_number < f.line_number)

\* the entries open to selection: with a wanted nickname only the named entries carrying it
Eligible(wanted) ==
    {i \in 1..Len(conf_entries) :
        wanted = <<>> \/ (conf_entries[i].format_type = S_named /\ conf_entries[i].nickname = wanted)}

EntryMatches(i) == try_format(get_sample_lines, ParseFormatString(conf_entries[i].format_string, "stable"))

\* the eligible entries whose match count is above zero and at least `need`
QualifyingEntries(wanted, need) ==
    {i \in Eligible(wanted) : \E m \in {EntryMatches(i)} : m > 0 /\ m >= need}

\* the bind selected the first of the entries Q in trying order, or failed when Q is empty
SelectedFirstOf(Q) ==
    IF Q = {}
    THEN bind_error /\ pc = "failed" /\ parsed_format = NoFormat /\ format_str = <<>> /\ names = <<>>
    ELSE LET first == CHOOSE i \in Q : \A j \in Q \ {i} : TriedBefore(conf_entries[i], conf_entries[j])
         IN  /\ ~bind_error
             /\ format_str = conf_entries[first].format_string
             /\ parsed_format = ParseFormatString(format_str, "stable")

\* C13: with a conf file and no format_str the bind selects the first entry, in the
\* order default, inline, named and by line within a class (only the named entries
\* with the wanted nickname when a format_type is given), whose match count is
\* above zero and at least ceil(n/2); with no such entry it fails and selects nothing
C13_FirstQualifyingEntry ==
    /\ bind_path = "conf_order" => SelectedFirstOf(QualifyingEntries(<<>>, CeilHalf(SampleCount)))
    /\ bind_path = "conf_nickname" => SelectedFirstOf(QualifyingEntries(format_type, CeilHalf(SampleCount)))

\* the same with the threshold the code computes, sample_lines.size() / 2 rounded down
ConfSelectionWithFloor ==
    /\ bind_path = "conf_order" => SelectedFirstOf(QualifyingEntries(<<>>, SampleCount \div 2))
    /\ bind_path = "conf_nickname" => SelectedFirstOf(QualifyingEntries(format_type, SampleCount \div 2))

\* ------------------------------------------------------------------------
\* Duration directives that collide: formats "%h" followed by one to
\* MaxDurations duration directives, lines of as many tokens
\* ------------------------------------------------------------------------
MaxDurations == 2

DurationWords ==
    {<<"%", "D">>, <<"%", ">", "D">>, <<"%", "<", "D">>, <<"%", "T">>, <<"%", ">", "T">>, <<"%", "<", "T">>, <<"%", "{", "m", "s", "}", "T">>, <<"%", "{", "u", "s", "}", "T">>, <<"%", "{", "s", "}", "T">>}

DurationFormats == {Join(<<<<"%", "h">>>> \o ws) : ws \in SeqsUpTo(DurationWords, MaxDurations)}

DurationTokens == {<<"1", "5", "0", "0">>, <<"2">>, <<"-">>}

DurationLines == {Join(<<<<"1", ".", "2", ".", "3", ".", "4">>>> \o ts) : ts \in SeqsUpTo(DurationTokens, MaxDurations)}

NextDuration ==
    \/ \E f \in DurationFormats, raw \in BOOLEAN, tie_order \in TieOrders : BindReader(f, raw, tie_order)
    \/ \E l \in DurationLines : CreateReader(<<l>>)
    \/ ParseLine
    \/ WriteColumn

SpecDuration == Init /\ [][NextDuration]_vars

IsDurationDirective(field) ==
    field.directive \in {<<"%", "D">>, <<"%", ">", "D">>, <<"%", "<", "D">>, <<"%", "T">>, <<"%", ">", "T">>, <<"%", "<", "T">>}

\* the unit a duration directive logs: 3 microseconds, 2 milliseconds, 1 seconds
UnitPrecision(field) ==
    IF field.directive \in {<<"%", "D">>, <<"%", ">", "D">>, <<"%", "<", "D">>} THEN 3
    ELSE IF field.modifier = <<"u", "s">> THEN 3
    ELSE IF field.modifier = <<"m", "s">> THEN 2
    ELSE 1

\* the duration directives of the bound format that share the column name `name`
DurationsNamed(name) ==
    {i \in 1..Len(parsed_format.fields) :
        IsDurationDirective(parsed_format.fields[i]) /\ parsed_format.fields[i].column_name = name}

RowComplete == pc = "parsed" /\ ~parse_error /\ Len(written) = Len(columns)

DurationExample ==
    /\ parsed_format.original_format_str = <<"%", "h", " ", "%", "D", " ", "%", "T">>
    /\ line = <<"1", ".", "2", ".", "3", ".", "4", " ", "1", "5", "0", "0", " ", "2">>
    /\ RowComplete

IntervalColumns == {p \in 1..Len(columns) : columns[p].type = "INTERVAL"}

\* C14: when several duration directives share a column name, exactly one of them is
\* not skipped and no other has a finer unit than it, whatever their order; for the
\* format '%h %D %T' and the line '1.2.3.4 1500 2' the %T field is skipped and the one
\* interval column, duration, holds 1500 microseconds
C14_HighestPrecisionDurationKept ==
    /\ pc # "start" =>
           \A name \in {parsed_format.fields[i].column_name : i \in 1..Len(parsed_format.fields)} :
               Cardinality(DurationsNamed(name)) >= 2 =>
                   \E kept \in DurationsNamed(name) :
                       /\ ~parsed_format.fields[kept].should_skip
                       /\ \A i \in DurationsNamed(name) \ {kept} :
                              /\ parsed_format.fields[i].should_skip
                              /\ UnitPrecision(parsed_format.fields[i]) <= UnitPrecision(parsed_format.fields[kept])
    /\ DurationExample =>
           /\ parsed_format.fields[3].should_skip
           /\ \E p \in IntervalColumns :
                  /\ IntervalColumns = {p}
                  /\ columns[p].name = <<"d", "u", "r", "a", "t", "i", "o", "n">>
                  /\ written[p] = Value("INTERVAL", <<"1", "5", "0", "0">>)

C14_Witness == DurationExample /\ Cardinality(DurationsNamed(<<"d", "u", "r", "a", "t", "i", "o", "n">>)) = 2

\* ------------------------------------------------------------------------
\* Distinct directives that collide on a column name: formats of one to
\* MaxCollisions directives, lines of as many tokens
\* ------------------------------------------------------------------------
MaxCollisions == 2

CollisionWords == {<<"%", "s">>, <<"%", ">", "s">>, <<"%", "<", "s">>, <<"%", "v">>, <<"%", "V">>, <<"%", "{", "X", "}", "i">>, <<"%", "{", "X", "}", "o">>}

CollisionFormats == {Join(ws) : ws \in SeqsUpTo(CollisionWords, MaxCollisions)}

CollisionTokens == {<<"2", "0", "0">>, <<"a">>}

CollisionLines == {Join(ts) : ts \in SeqsUpTo(CollisionTokens, MaxCollisions)}

NextCollision ==
    \/ \E f \in CollisionFormats, raw \in BOOLEAN, tie_order \in TieOrders : BindReader(f, raw, tie_order)
    \/ \E l \in CollisionLines : CreateReader(<<l>>)
    \/ ParseLine
    \/ WriteColumn

SpecCollision == Init /\ [][NextCollision]_vars

\* the name a field has before the collisions are resolved
BaseName(field) == GetColumnName(field.directive, field.modifier)

\* the fields of the bound format that resolve to the base name of field i
Colliding(i) ==
    {j \in 1..Len(parsed_format.fields) : BaseName(parsed_format.fields[j]) = BaseName(parsed_format.fields[i])}

DistinctDirectives(S) ==
    \A i, j \in S : i # j => parsed_format.fields[i].directive # parsed_format.fields[j].directive

\* the name the rule gives field i: the base name for priority 0, else base + collision_suffix
RuleName(i) ==
    IF GetDirectiveDefinition(parsed_format.fields[i].directive).collision_priority = 0
    THEN BaseName(parsed_format.fields[i])
    ELSE BaseName(parsed_format.fields[i]) \o GetDirectiveDefinition(parsed_format.fields[i].directive).collision_suffix

\* C15: among distinct directives that resolve to one column name, the field whose
\* directive has collision priority 0 keeps the base name and every other field is named
\* base + its directive's collision_suffix, whatever the order of the directives
C15_SuffixByDirective ==
    pc # "start" =>
        \A i \in 1..Len(parsed_format.fields) :
            Cardinality(Colliding(i)) >= 2 /\ DistinctDirectives(Colliding(i)) =>
                parsed_format.fields[i].column_name = RuleName(i)

\* the same where one of the colliding directives has collision priority 0
SuffixByDirectiveUnderPriorityZero ==
    pc # "start" =>
        \A i \in 1..Len(parsed_format.fields) :
            /\ Cardinality(Colliding(i)) >= 2
            /\ DistinctDirectives(Colliding(i))
            /\ \E j \in Colliding(i) :
                   GetDirectiveDefinition(parsed_format.fields[j].directive).collision_priority = 0
            => parsed_format.fields[i].column_name = RuleName(i)

\* ------------------------------------------------------------------------
\* Per-field conversions: formats of one to MaxConvertWords directives of
\* every column type, lines of as many tokens
\* ------------------------------------------------------------------------
MaxConvertWords == 1

ConvertWords ==
    {<<"%", "X">>, <<"%", "u">>, <<"%", ">", "s">>, <<"%", "b">>, <<"%", "I">>, <<"%", "{", "C", "o", "n", "t", "e", "n", "t", "-", "L", "e", "n", "g", "t", "h", "}", "i">>, <<"%", "D">>, <<"%", "T">>, <<"%", "{", "m", "s", "}", "T">>, <<"%", "{", "A", "g", "e", "}", "o">>}

ConvertFormats == {Join(ws) : ws \in SeqsUpTo(ConvertWords, MaxConvertWords)}

ConvertTokens == {<<"-">>, <<"X">>, <<"+">>, <<"1", "2">>, <<"1", "2", "a", "b", "c">>, <<"a", "b", "c">>, <<"-", "3">>}

ConvertLines == {Join(ts) : ts \in SeqsUpTo(ConvertTokens, MaxConvertWords)}

NextConvert ==
    \/ \E f \in ConvertFormats, raw \in BOOLEAN, tie_order \in TieOrders : BindReader(f, raw, tie_order)
    \/ \E l \in ConvertLines : CreateReader(<<l>>)
    \/ ParseLine
    \/ WriteColumn

SpecConvert == Init /\ [][NextConvert]_vars

\* an optional sign and one or more digits, nothing else
IsDecimalNumber(v) ==
    LET digits == IF v # <<>> /\ v[1] \in {"+", "-"} THEN Tail(v) ELSE v
    IN  digits # <<>> /\ \A i \in 1..Len(digits) : IsDigit(digits[i])

\* the columns written so far for a regular field: position, field and capture
RegularWrites == {p \in 1..Len(written) : output[p].column = "regular"}

FieldOf(p) == parsed_format.fields[output[p].field + 1]

CaptureOf(p) == parsed_values[output[p].value_idx + 1]

\* C18: on a matched line no conversion makes the row a parse error or ends the scan;
\* a captured '-' is null in text and integer columns, except that %X maps X, + and -
\* to aborted, keepalive and close and that the BIGINT columns bytes, bytes_clf,
\* bytes_received, bytes_sent, bytes_transferred hold 0; a capture that is no valid
\* number is null in a numeric or interval column
C18_ConversionFailuresAreNull ==
    /\ pc # "error"
    /\ pc = "parsed" /\ ~parse_error =>
           \A p \in RegularWrites :
               /\ FieldOf(p).directive = <<"%", "X">> =>
                      written[p] = Value("VARCHAR",
                                         IF CaptureOf(p) = <<"X">> THEN <<"a", "b", "o", "r", "t", "e", "d">>
                                         ELSE IF CaptureOf(p) = <<"+">> THEN <<"k", "e", "e", "p", "a", "l", "i", "v", "e">>
                                         ELSE IF CaptureOf(p) = <<"-">> THEN <<"c", "l", "o", "s", "e">>
                                         ELSE CaptureOf(p))
               /\ CaptureOf(p) = <<"-">> /\ FieldOf(p).directive # <<"%", "X">> =>
                      IF FieldOf(p).type = "BIGINT" /\ FieldOf(p).column_name \in
                             {<<"b", "y", "t", "e", "s">>, <<"b", "y", "t", "e", "s", "_", "c", "l", "f">>, <<"b", "y", "t", "e", "s", "_", "r", "e", "c", "e", "i", "v", "e", "d">>, <<"b", "y", "t", "e", "s", "_", "s", "e", "n", "t">>, <<"b", "y", "t", "e", "s", "_", "t", "r", "a", "n", "s", "f", "e", "r", "r", "e", "d">>}
                      THEN written[p] = Value("BIGINT", <<"0">>)
                      ELSE written[p] = Null
               /\ FieldOf(p).type \in {"INTEGER", "BIGINT", "INTERVAL"} /\ ~IsDecimalNumber(CaptureOf(p)) /\
                  CaptureOf(p) # <<"-">> =>
                      written[p] = Null

\* the same without the captures that begin with a number and go on with something else
ConversionsOfWholeCaptures ==
    /\ pc # "error"
    /\ pc = "parsed" /\ ~parse_error =>
           \A p \in RegularWrites :
               /\ FieldOf(p).directive = <<"%", "X">> =>
                      written[p] = Value("VARCHAR",
                                         IF CaptureOf(p) = <<"X">> THEN <<"a", "b", "o", "r", "t", "e", "d">>
                                         ELSE IF CaptureOf(p) = <<"+">> THEN <<"k", "e", "e", "p", "a", "l", "i", "v", "e">>
                                         ELSE IF CaptureOf(p) = <<"-">> THEN <<"c", "l", "o", "s", "e">>
                                         ELSE CaptureOf(p))
               /\ CaptureOf(p) = <<"-">> /\ FieldOf(p).directive # <<"%", "X">> =>
                      IF FieldOf(p).type = "BIGINT" /\ FieldOf(p).column_name \in
                             {<<"b", "y", "t", "e", "s">>, <<"b", "y", "t", "e", "s", "_", "c", "l", "f">>, <<"b", "y", "t", "e", "s", "_", "r", "e", "c", "e", "i", "v", "e", "d">>, <<"b", "y", "t", "e", "s", "_", "s", "e", "n", "t">>, <<"b", "y", "t", "e", "s", "_", "t", "r", "a", "n", "s", "f", "e", "r", "r", "e", "d">>}
                      THEN written[p] = Value("BIGINT", <<"0">>)
                      ELSE written[p] = Null
               /\ FieldOf(p).type \in {"INTEGER", "BIGINT", "INTERVAL"} /\ CaptureOf(p) # <<"-">> /\
                  ~IsDigit(CaptureOf(p)[1]) /\ ~(CaptureOf(p)[1] \in {"+", "-"} /\ Len(CaptureOf(p)) > 1) =>
                      written[p] = Null

\* ------------------------------------------------------------------------
\* The request line: formats of one to MaxRequestWords words among the %r
\* variants and the directives that take over their sub-columns, lines of as
\* many tokens
\* ------------------------------------------------------------------------
MaxRequestWords == 2

RequestWords == {<<"\"", "%", "r", "\"">>, <<"\"", "%", ">", "r", "\"">>, <<"\"", "%", "<", "r", "\"">>, <<"%", "r">>, <<"%", "m">>, <<"%", "U">>, <<"%", "q">>, <<"%", "H">>}

RequestFormats == {Join(ws) : ws \in SeqsUpTo(RequestWords, MaxRequestWords)}

RequestTokens ==
    {<<"\"", "P", "O", "S", "T", " ", "/", "a", "?", "x", "=", "1", " ", "H", "T", "T", "P", "/", "1", ".", "1", "\"">>, <<"\"", "G", "E", "T", " ", "/", "i", "n", "d", "e", "x", ".", "h", "t", "m", "l", " ", "H", "T", "T", "P", "/", "1", ".", "0", "\"">>, <<"\"", "G", "E", "T", " ", "/", "a", "\"">>, <<"\"", "\"">>,
     <<"\"", "G", " ", " ", "/", "a", "?", " ", "H", "\"">>, <<"\"", "G", " ", "/", "?", "a", "?", "b", " ", "H", " ", "x", "\"">>, <<"a">>}

RequestLines == {Join(ts) : ts \in SeqsUpTo(RequestTokens, MaxRequestWords)}

NextRequest ==
    \/ \E f \in RequestFormats, raw \in BOOLEAN, tie_order \in TieOrders : BindReader(f, raw, tie_order)
    \/ \E l \in RequestLines : CreateReader(<<l>>)
    \/ ParseLine
    \/ WriteColumn

SpecRequest == Init /\ [][NextRequest]_vars

\* the maximal runs of non-whitespace characters of s, in order
RECURSIVE WordsOf(_)
WordsOf(s) ==
    IF s = <<>> THEN <<>>
    ELSE IF IsSpace(s[1]) THEN WordsOf(Tail(s))
    ELSE LET stops == {i \in 1..Len(s) : IsSpace(s[i])}
             end == IF stops = {} THEN Len(s) + 1 ELSE CHOOSE i \in stops : \A j \in stops : i <= j
         IN  <<SubSeq(s, 1, end - 1)>> \o WordsOf(SubSeq(s, end, Len(s)))

\* the part of a path-with-query before its first '?', and the part from it on
BeforeMark(s) == IF \E i \in 1..Len(s) : s[i] = "?" THEN SubSeq(s, 1, (CHOOSE i \in 1..Len(s) : s[i] = "?" /\ \A j \in 1..(i - 1) : s[j] # "?") - 1) ELSE s

FromMark(s) == SubSeq(s, Len(BeforeMark(s)) + 1, Len(s))

\* what a sub-column of a %r capture must hold
SubColumn(label, capture) ==
    LET words == WordsOf(capture) IN
    IF Len(words) < 3
    THEN (IF label = "query_string" THEN Null ELSE Value("VARCHAR", <<>>))
    ELSE CASE label = "method" -> Value("VARCHAR", words[1])
           [] label = "path" -> Value("VARCHAR", BeforeMark(words[2]))
           [] label = "protocol" -> Value("VARCHAR", words[3])
           [] OTHER -> IF FromMark(words[2]) = <<>> THEN Null ELSE Value("VARCHAR", FromMark(words[2]))

RequestWrites == {p \in 1..Len(written) : output[p].column \in {"method", "path", "query_string", "protocol"}}

RequestExample(request) ==
    /\ parsed_format.original_format_str = <<"\"", "%", "r", "\"">>
    /\ parsed_values = <<request>>
    /\ RowComplete

\* C19: each kept sub-column of a %r-variant capture holds its part of the request split
\* on whitespace into method, path-with-query and protocol, the path cut at the first
\* '?' and the query string keeping it; an empty query string is null; when the split
\* fails the text sub-columns are empty and query_string is null.  'POST /a?x=1
\* HTTP/1.1' gives POST, /a, ?x=1, HTTP/1.1; 'GET /index.html HTTP/1.0' a null query_string
C19_RequestSubColumns ==
    /\ pc = "parsed" /\ ~parse_error =>
           \A p \in RequestWrites : written[p] = SubColumn(output[p].column, CaptureOf(p))
    /\ RequestExample(<<"P", "O", "S", "T", " ", "/", "a", "?", "x", "=", "1", " ", "H", "T", "T", "P", "/", "1", ".", "1">>) =>
           SubSeq(written, 1, 4) = <<Value("VARCHAR", <<"P", "O", "S", "T">>), Value("VARCHAR", <<"/", "a">>),
                                     Value("VARCHAR", <<"?", "x", "=", "1">>), Value("VARCHAR", <<"H", "T", "T", "P", "/", "1", ".", "1">>)>>
    /\ RequestExample(<<"G", "E", "T", " ", "/", "i", "n", "d", "e", "x", ".", "h", "t", "m", "l", " ", "H", "T", "T", "P", "/", "1", ".", "0">>) =>
           SubSeq(written, 1, 4) = <<Value("VARCHAR", <<"G", "E", "T">>), Value("VARCHAR", <<"/", "i", "n", "d", "e", "x", ".", "h", "t", "m", "l">>),
                                     Null, Value("VARCHAR", <<"H", "T", "T", "P", "/", "1", ".", "0">>)>>

C19_Witness == RequestExample(<<"P", "O", "S", "T", " ", "/", "a", "?", "x", "=", "1", " ", "H", "T", "T", "P", "/", "1", ".", "1">>) /\ written[3] = Value("VARCHAR", <<"?", "x", "=", "1">>)

\* ------------------------------------------------------------------------
\* Timestamp groups: formats of one to MaxTimestampWords %t variants and the
\* bracketed date / time / zone format, lines of as many tokens
\* ------------------------------------------------------------------------
MaxTimestampWords == 2

TimestampWords ==
    {<<"%", "t">>, <<"%", "{", "s", "e", "c", "}", "t">>, <<"%", "{", "m", "s", "e", "c", "}", "t">>, <<"%", "{", "u", "s", "e", "c", "}", "t">>, <<"%", "{", "m", "s", "e", "c", "_", "f", "r", "a", "c", "}", "t">>, <<"%", "{", "u", "s", "e", "c", "_", "f", "r", "a", "c", "}", "t">>,
     <<"%", "{", "%", "z", "}", "t">>, <<"%", "{", "%", "d", "/", "%", "b", "/", "%", "Y", "}", "t">>, <<"%", "{", "%", "H", ":", "%", "M", ":", "%", "S", "}", "t">>}

BracketedFormat == <<"[", "%", "{", "%", "d", "/", "%", "b", "/", "%", "Y", "}", "t", " ", "%", "{", "%", "H", ":", "%", "M", ":", "%", "S", "}", "t", " ", "%", "{", "%", "z", "}", "t", "]">>

TimestampFormats == {Join(ws) : ws \in SeqsUpTo(TimestampWords, MaxTimestampWords)} \cup {BracketedFormat}

TimestampTokens ==
    {<<"[", "1", "0", "/", "O", "c", "t", "/", "2", "0", "0", "0", ":", "1", "3", ":", "5", "5", ":", "3", "6", " ", "-", "0", "7", "0", "0", "]">>, <<"[", "1", "0", "/", "O", "c", "t", "/", "2", "0", "0", "0", ":", "1", "3", ":", "5", "5", ":", "3", "6", " ", "U", "T", "C", "]">>, <<"[", "3", "1", "/", "F", "e", "b", "/", "2", "0", "0", "0", ":", "1", "3", ":", "5", "5", ":", "3", "6", " ", "+", "0", "0", "0", "0", "]">>,
     <<"[", "1", "0", "/", "O", "c", "t", "/", "2", "0", "0", "0", ":", "1", "3", ":", "5", "5", ":", "3", "6", "]">>, <<"[", "1", "]">>, <<"9", "7", "1", "2", "1", "1", "3", "3", "6">>, <<"1", "2", "3">>, <<"1", "2", "3", "4", "5", "6">>, <<"-", "0", "7", "0", "0">>, <<"1", "0", "/", "O", "c", "t", "/", "2", "0", "0", "0">>,
     <<"3", "1", "/", "F", "e", "b", "/", "2", "0", "0", "0">>, <<"1", "3", ":", "5", "5", ":", "3", "6">>}

BracketedLines == {<<"[", "1", "0", "/", "O", "c", "t", "/", "2", "0", "0", "0", " ", "1", "3", ":", "5", "5", ":", "3", "6", " ", "-", "0", "7", "0", "0", "]">>, <<"[", "3", "1", "/", "F", "e", "b", "/", "2", "0", "0", "0", " ", "1", "3", ":", "5", "5", ":", "3", "6", " ", "+", "0", "0", "0", "0", "]">>, <<"[", "1", "0", "/", "O", "c", "t", "/", "2", "0", "0", "0", " ", "1", "3", ":", "5", "5", ":", "3", "6", " ", "+", "0", "1", "3", "0", "]">>}

TimestampLines == {Join(ts) : ts \in SeqsUpTo(TimestampTokens, MaxTimestampWords)} \cup BracketedLines

NextTimestamp ==
    \/ \E f \in TimestampFormats, raw \in BOOLEAN, tie_order \in TieOrders : BindReader(f, raw, tie_order)
    \/ \E l \in TimestampLines : CreateReader(<<l>>)
    \/ ParseLine
    \/ WriteColumn

SpecTimestamp == Init /\ [][NextTimestamp]_vars

\* the fields of the timestamp column written at p with their captures, in format order
Members(cell) ==
    LET field == parsed_format.fields[cell.field + 1]
        indices == IF field.timestamp_group_id >= 0
                   THEN parsed_format.timestamp_groups[field.timestamp_group_id + 1].field_indices
                   ELSE <<cell.field>>
    IN  [i \in 1..Len(indices) |-> [field |-> parsed_format.fields[indices[i] + 1],
                                    value |-> parsed_values[cell.value_idx + i]]]

Last(S) == CHOOSE i \in S : \A j \in S : j <= i

\* the base instant a single member supplies: Apache default or epoch
SuppliesBase(m) ==
    CASE m.field.timestamp_type = "APACHE_DEFAULT" -> ParseTimestamp(m.value).outcome = "ok"
      [] m.field.timestamp_type \in {"EPOCH_SEC", "EPOCH_MSEC", "EPOCH_USEC"} -> stoll(m.value).ok
      [] OTHER -> FALSE

BaseOf(m) ==
    CASE m.field.timestamp_type = "APACHE_DEFAULT" -> ParseTimestamp(m.value).ts
      [] m.field.timestamp_type = "EPOCH_SEC" -> Instant(0, ToInt(m.value), 0)
      [] m.field.timestamp_type = "EPOCH_MSEC" -> Instant(0, ToInt(m.value) \div 1000, (ToInt(m.value) % 1000) * 1000)
      [] OTHER -> Instant(0, 0, ToInt(m.value))

\* the microseconds of the last fractional member
FractionOf(ms) ==
    LET fracs == {i \in 1..Len(ms) : ms[i].field.timestamp_type \in {"FRAC_MSEC", "FRAC_USEC"} /\ stoll(ms[i].value).ok}
    IN  IF fracs = {} THEN 0
        ELSE LET m == ms[Last(fracs)]
             IN  IF m.field.timestamp_type = "FRAC_MSEC" THEN ToInt(m.value) * 1000 ELSE ToInt(m.value)

\* the strftime members' values and formats, each joined by single blanks
StrftimeMembers(ms) == SelectSeq(ms, LAMBDA m : m.field.timestamp_type = "STRFTIME")

\* what the timestamp column of the members ms must hold
ExpectedTimestamp(ms) ==
    LET suppliers == {i \in 1..Len(ms) : SuppliesBase(ms[i])}
        strf == StrftimeMembers(ms)
        joined == ParseStrftimeTimestamp(Join([i \in 1..Len(strf) |-> strf[i].value]),
                                         Join([i \in 1..Len(strf) |-> strf[i].field.strftime_format]))
        frac == FractionOf(ms)
    IN  IF suppliers # {}
        THEN LET base == BaseOf(ms[Last(suppliers)]) IN TimestampValue(Instant(base.days, base.secs, base.usec + frac))
        ELSE IF strf # <<>> /\ joined.outcome = "ok"
        THEN TimestampValue(Instant(joined.ts.days, joined.ts.secs, joined.ts.usec + frac))
        ELSE Null

TimestampWrites == {p \in 1..Len(written) : output[p].column = "timestamp"}

BracketedExample ==
    /\ parsed_format.original_format_str = BracketedFormat
    /\ line = <<"[", "1", "0", "/", "O", "c", "t", "/", "2", "0", "0", "0", " ", "1", "3", ":", "5", "5", ":", "3", "6", " ", "-", "0", "7", "0", "0", "]">>
    /\ RowComplete

\* every timestamp column written for a matched line holds the base its members supply
\* plus the fraction, or null when none supplies a base; a %z member does not shift a base
TimestampValuesWhenEmitted ==
    /\ pc = "parsed" /\ ~parse_error =>
           \A p \in TimestampWrites : written[p] = ExpectedTimestamp(Members(output[p]))
    /\ BracketedExample => written[1] = Value("TIMESTAMP", <<11240, 75336, 0>>)

\* C17: on a matched line the timestamp column of a group is emitted: null when no member
\* supplied a base instant, otherwise base + fraction in epoch microseconds, the base
\* coming from an Apache-default, epoch or concatenated-strftime member, and a separate
\* %z member never shifting it; '[%{%d/%b/%Y}t %{%H:%M:%S}t %{%z}t]' with
\* '[10/Oct/2000 13:55:36 -0700]' gives 2000-10-10T20:55:36Z
C17_TimestampGroupValue ==
    /\ pc # "error"
    /\ TimestampValuesWhenEmitted

\* the scan ends on an exception only where an Apache-default member has a zone that is
\* not a sign and four digits or a day its month does not have
ScanEndsOnApacheMemberOnly ==
    pc = "error" =>
        \E cell \in {WriteColumnValue(parsed_format, raw_mode, Len(output), parse_error)} :
            /\ cell.column \in {"timestamp", "timestamp_raw"}
            /\ \E i \in 1..Len(Members(cell)) :
                   /\ Members(cell)[i].field.timestamp_type = "APACHE_DEFAULT"
                   /\ ParseTimestamp(Members(cell)[i].value).outcome = "throws"

\* ------------------------------------------------------------------------
\* HttpdConfReader: conf files of one to MaxConfLines lines
\* ------------------------------------------------------------------------
MaxConfLines == 2

TAB == "\t"

\* the locals of TokenizeLine
TokenizeLocals == [tokens |-> <<>>, current_token |-> <<>>, in_quotes |-> FALSE, escape_next |-> FALSE]

\* httpd_conf_reader.cpp lines 15-52: the loop body for the character c
TokenizeChar(st, c) ==
    IF st.escape_next THEN [st EXCEPT !.current_token = Append(@, c), !.escape_next = FALSE]
    ELSE IF c = "\\" THEN [st EXCEPT !.escape_next = TRUE]
    ELSE IF c = "\""
    THEN (IF st.in_quotes
          THEN [st EXCEPT !.tokens = Append(@, st.current_token), !.current_token = <<>>, !.in_quotes = FALSE]
          ELSE [st EXCEPT !.in_quotes = TRUE])
    ELSE IF ~st.in_quotes /\ c \in {" ", TAB}
    THEN (IF st.current_token # <<>>
          THEN [st EXCEPT !.tokens = Append(@, st.current_token), !.current_token = <<>>]
          ELSE st)
    ELSE [st EXCEPT !.current_token = Append(@, c)]

RECURSIVE TokenizeFrom(_, _, _)
TokenizeFrom(conf_line, i, st) ==
    IF i >= Len(conf_line) THEN st ELSE TokenizeFrom(conf_line, i + 1, TokenizeChar(st, At(conf_line, i)))

\* httpd_conf_reader.cpp lines 9-60
TokenizeLine(conf_line) ==
    CHOOSE tokens \in {IF st.current_token # <<>> THEN Append(st.tokens, st.current_token) ELSE st.tokens :
                       st \in {TokenizeFrom(conf_line, 0, TokenizeLocals)}} : TRUE

\* lines 111-117: the first '"' at or after path_end that no backslash precedes, or the end of the line
RECURSIVE ClosingQuote(_, _)
ClosingQuote(conf_line, path_end) ==
    IF path_end < Len(conf_line) /\ ~(At(conf_line, path_end) = "\"" /\ (path_end = 0 \/ At(conf_line, path_end - 1) # "\\"))
    THEN ClosingQuote(conf_line, path_end + 1)
    ELSE path_end

\* lines 120-122
RECURSIVE SkipBlanksAndTabs(_, _)
SkipBlanksAndTabs(conf_line, p) ==
    IF p < Len(conf_line) /\ At(conf_line, p) \in {" ", TAB} THEN SkipBlanksAndTabs(conf_line, p + 1) ELSE p

Directive(parsed, entry) == [parsed |-> parsed, entry |-> entry]

S_LogFormat == <<"L", "o", "g", "F", "o", "r", "m", "a", "t">>

S_CustomLog == <<"C", "u", "s", "t", "o", "m", "L", "o", "g">>

S_ErrorLogFormat == <<"E", "r", "r", "o", "r", "L", "o", "g", "F", "o", "r", "m", "a", "t">>

S_ErrorLog == <<"E", "r", "r", "o", "r", "L", "o", "g">>

\* httpd_conf_reader.cpp lines 62-145
ParseDirectiveLine(conf_line, directive, line_number) ==
    LET tokens == TokenizeLine(SubStrFrom(conf_line, Len(directive)))
        none == Directive(FALSE, ConfigEntry(<<>>, <<>>, <<>>, <<>>, line_number))
    IN  IF tokens = <<>> THEN none
        ELSE IF directive = S_LogFormat
        THEN IF Len(tokens) >= 2 /\ Find(tokens[2], "=", 0) = NPOS
             THEN Directive(TRUE, ConfigEntry(S_access, S_named, tokens[2], tokens[1], line_number))
             ELSE Directive(TRUE, ConfigEntry(S_access, S_default, <<>>, tokens[1], line_number))
        ELSE IF directive = S_CustomLog
        THEN IF Len(tokens) < 2 THEN Directive(FALSE, ConfigEntry(S_access, <<>>, <<>>, <<>>, line_number))
             ELSE LET path_start == Find(conf_line, "\"", 0)
                      path_end == SkipBlanksAndTabs(conf_line, ClosingQuote(conf_line, path_start + 1) + 1)
                  IN  IF path_start # NPOS /\ path_end < Len(conf_line) /\ At(conf_line, path_end) = "\""
                      THEN Directive(TRUE, ConfigEntry(S_access, S_inline, <<>>, tokens[2], line_number))
                      ELSE Directive(FALSE, ConfigEntry(S_access, <<>>, <<>>, <<>>, line_number))
        ELSE IF directive = S_ErrorLogFormat
        THEN Directive(TRUE, ConfigEntry(S_error, S_default, <<>>, tokens[1], line_number))
        ELSE none

ToUpperChar(c) ==
    IF \E u \in DOMAIN UpperToLower : UpperToLower[u] = c
    THEN CHOOSE u \in DOMAIN UpperToLower : UpperToLower[u] = c
    ELSE c

\* StringUtil::Upper
Upper(s) == [i \in 1..Len(s) |-> ToUpperChar(s[i])]

\* StringUtil::Trim: the whitespace of both ends removed
RECURSIVE Trim(_)
Trim(s) ==
    IF s = <<>> THEN s
    ELSE IF IsSpace(s[1]) THEN Trim(Tail(s))
    ELSE IF IsSpace(s[Len(s)]) THEN Trim(SubSeq(s, 1, Len(s) - 1))
    ELSE s

\* upper.rfind(prefix, 0) == 0
StartsWith(s, prefix) == Len(s) >= Len(prefix) /\ SubSeq(s, 1, Len(prefix)) = prefix

\* lines 190 to 198: the prefix of the directive followed by a blank or a tab
IsDirective(upper, directive) ==
    StartsWith(upper, Upper(directive) \o <<" ">>) \/ StartsWith(upper, Upper(directive) \o <<TAB>>)

\* lines 175-204: what a complete logical line adds to the entries
DirectiveOf(continued_line, continued_line_start) ==
    LET trimmed == Trim(continued_line)
        upper == Upper(trimmed)
    IN  IF trimmed = <<>> \/ trimmed[1] = "#" THEN Directive(FALSE, <<>>)
        ELSE IF IsDirective(upper, S_LogFormat)
        THEN ParseDirectiveLine(trimmed, S_LogFormat, continued_line_start)
        ELSE IF IsDirective(upper, S_CustomLog)
        THEN ParseDirectiveLine(trimmed, S_CustomLog, continued_line_start)
        ELSE IF IsDirective(upper, S_ErrorLogFormat)
        THEN ParseDirectiveLine(trimmed, S_ErrorLogFormat, continued_line_start)
        ELSE IF IsDirective(upper, S_ErrorLog)
        THEN ParseDirectiveLine(trimmed, S_ErrorLog, continued_line_start)
        ELSE Directive(FALSE, <<>>)

\* httpd_conf_reader.cpp lines 158-205: the loop over the lines ReadLine returns
RECURSIVE ParseConfigLoop(_, _, _, _, _)
ParseConfigLoop(lines, line_number, continued_line, continued_line_start, entries) ==
    IF line_number >= Len(lines) THEN entries
    ELSE \* line_number counts the lines read before this one
         LET joined == IF continued_line # <<>> THEN continued_line \o <<" ">> \o lines[line_number + 1]
                       ELSE lines[line_number + 1]
             start == IF continued_line # <<>> THEN continued_line_start ELSE line_number + 1
         IN  IF joined # <<>> /\ joined[Len(joined)] = "\\"
             THEN ParseConfigLoop(lines, line_number + 1, SubSeq(joined, 1, Len(joined) - 1), start, entries)
             ELSE ParseConfigLoop(lines, line_number + 1, <<>>, start,
                                  IF DirectiveOf(joined, start).parsed
                                  THEN Append(entries, DirectiveOf(joined, start).entry)
                                  ELSE entries)

ConfLines ==
    {<<"L", "o", "g", "F", "o", "r", "m", "a", "t", " ", "\"", "%", "h", " ", "%", "l", "\"", " ", "c", "o", "m", "m", "o", "n">>, <<"L", "o", "g", "F", "o", "r", "m", "a", "t", " ", "\"", "%", "h", "\"">>, <<"L", "o", "g", "F", "o", "r", "m", "a", "t", " ", "\"", "%", "h", "\"", " ", "e", "n", "v", "=", "x">>, <<"l", "o", "g", "f", "o", "r", "m", "a", "t", "\t", "\"", "%", "h", "\"", " ", "n">>,
     <<" ", " ", "L", "o", "g", "F", "o", "r", "m", "a", "t", " ", "%", "h">>, <<"L", "o", "g", "F", "o", "r", "m", "a", "t", " ", "\"", "%", "h", " ", "\\">>, <<"%", "l", "\"", " ", "c">>,
     <<"C", "u", "s", "t", "o", "m", "L", "o", "g", " ", "\"", "l", "o", "g", "s", "/", "a", "\"", " ", "\"", "%", "h", "\"">>, <<"C", "u", "s", "t", "o", "m", "L", "o", "g", " ", "\"", "l", "o", "g", "s", "/", "a", "\"", " ", "c", "o", "m", "m", "o", "n">>, <<"C", "u", "s", "t", "o", "m", "L", "o", "g", " ", "l", "o", "g", "s", "/", "a", " ", "\"", "%", "h", "\"">>,
     <<"C", "u", "s", "t", "o", "m", "L", "o", "g", " ", "l", "o", "g", "s", "/", "a", " ", "c", "o", "m", "m", "o", "n">>, <<"C", "u", "s", "t", "o", "m", "L", "o", "g", " ", "\"", "l", "o", "g", "s", "/", "a", "\"">>, <<"C", "u", "s", "t", "o", "m", "L", "o", "g", " ", "\"", "l", "o", "g", "s", "/", "a", "\"", " ", "\"", "%", "h", "\"", " ", "e", "n", "v", "=", "x">>,
     <<"E", "r", "r", "o", "r", "L", "o", "g", "F", "o", "r", "m", "a", "t", " ", "\"", "[", "%", "t", "]", " ", "%", "M", "\"">>, <<"E", "r", "r", "o", "r", "L", "o", "g", " ", "\"", "l", "o", "g", "s", "/", "e", "\"">>, <<"S", "e", "r", "v", "e", "r", "N", "a", "m", "e", " ", "x">>, <<"#", " ", "L", "o", "g", "F", "o", "r", "m", "a", "t", " ", "\"", "%", "h", "\"">>,
     <<"L", "o", "g", "F", "o", "r", "m", "a", "t">>, <<>>}

ConfTexts == SeqsUpTo(ConfLines, MaxConfLines)

InitConfFile ==
    /\ pc = "start"
    /\ raw_mode = FALSE
    /\ parsed_format = NoFormat
    /\ names = <<>>
    /\ columns = <<>>
    /\ file \in ConfTexts
    /\ read_pos = 0
    /\ scan_initialized = FALSE
    /\ finished = FALSE
    /\ current_line_number = 0
    /\ rows = <<>>
    /\ line = <<>>
    /\ parsed_values = <<>>
    /\ parse_error = FALSE
    /\ output = <<>>
    /\ threads = <<>>
    /\ true_returns = 0
    /\ late_true = FALSE
    /\ matches = <<>>
    /\ writers = {}
    /\ BufIdle
    /\ written = <<>>
    /\ caches = NoCaches
    /\ format_type = <<>>
    /\ format_str = <<>>
    /\ conf = <<"c">>
    /\ conf_entries = <<>>
    /\ bind_error = FALSE
    /\ bind_path = "none"

\* HttpdConfReader::ParseConfigFile (lines 147-208) over the conf file whose lines are `file`
ParseConfigFile ==
    /\ pc = "start"
    /\ pc' = "conf_parsed"
    /\ read_pos' = Len(file)
    /\ conf_entries' = ParseConfigLoop(file, 0, <<>>, 0, <<>>)
    /\ UNCHANGED <<bindVars, columns, file, scan_initialized, finished, current_line_number, rows, lineVars,
                   threadVars, bufVars, format_type, format_str, conf, bind_error, bind_path, written, caches>>

NextConfFile == ParseConfigFile

SpecConfFile == InitConfFile /\ [][NextConfFile]_vars

\* the arguments of a directive: a run between double quotes, or a run without blanks, tabs and quotes
RECURSIVE ArgsOf(_)
ArgsOf(s) ==
    IF s = <<>> THEN <<>>
    ELSE IF s[1] \in {" ", TAB} THEN ArgsOf(Tail(s))
    ELSE IF s[1] = "\""
    THEN LET closes == {i \in 2..Len(s) : s[i] = "\""}
             close == IF closes = {} THEN Len(s) + 1 ELSE CHOOSE i \in closes : \A j \in closes : i <= j
         IN  <<[text |-> SubSeq(s, 2, close - 1), quoted |-> TRUE]>> \o ArgsOf(SubSeq(s, close + 1, Len(s)))
    ELSE LET stops == {i \in 1..Len(s) : s[i] \in {" ", TAB, "\""}}
             stop == IF stops = {} THEN Len(s) + 1 ELSE CHOOSE i \in stops : \A j \in stops : i <= j
         IN  <<[text |-> SubSeq(s, 1, stop - 1), quoted |-> FALSE]>> \o ArgsOf(SubSeq(s, stop, Len(s)))

\* the lines of a conf file with every line that ends in a backslash joined to its successor
RECURSIVE LogicalLines(_, _)
LogicalLines(lines, n) ==
    IF n > Len(lines) THEN <<>>
    ELSE IF lines[n] # <<>> /\ lines[n][Len(lines[n])] = "\\"
    THEN IF n = Len(lines) THEN <<>>
         ELSE LET rest == LogicalLines([lines EXCEPT ![n + 1] = SubSeq(lines[n], 1, Len(lines[n]) - 1) \o <<" ">> \o @], n + 1)
              IN  IF rest = <<>> THEN rest ELSE <<[rest[1] EXCEPT !.number = n]>> \o Tail(rest)
    ELSE <<[text |-> lines[n], number |-> n]>> \o LogicalLines(lines, n + 1)

\* the entries a directive line must give; with_quoted_path also asks CustomLog's first argument to be quoted
EntriesOfLine(text, number, with_quoted_path) ==
    LET trimmed == Trim(text)
        args == ArgsOf(trimmed)
        name == IF args = <<>> THEN <<>> ELSE ToLower(args[1].text)
        given == IF args = <<>> THEN <<>> ELSE Tail(args)
    IN  IF trimmed = <<>> \/ trimmed[1] = "#" \/ given = <<>> THEN <<>>
        ELSE IF name = <<"l", "o", "g", "f", "o", "r", "m", "a", "t">>
        THEN IF Len(given) >= 2 /\ "=" \notin {given[2].text[i] : i \in 1..Len(given[2].text)}
             THEN <<ConfigEntry(S_access, S_named, given[2].text, given[1].text, number)>>
             ELSE <<ConfigEntry(S_access, S_default, <<>>, given[1].text, number)>>
        ELSE IF name = <<"c", "u", "s", "t", "o", "m", "l", "o", "g">>
        THEN IF Len(given) >= 2 /\ given[2].quoted /\ (with_quoted_path => given[1].quoted)
             THEN <<ConfigEntry(S_access, S_inline, <<>>, given[2].text, number)>>
             ELSE <<>>
        ELSE IF name = <<"e", "r", "r", "o", "r", "l", "o", "g", "f", "o", "r", "m", "a", "t">>
        THEN <<ConfigEntry(S_error, S_default, <<>>, given[1].text, number)>>
        ELSE <<>>

RECURSIVE EntriesOfLines(_, _)
EntriesOfLines(logical, with_quoted_path) ==
    IF logical = <<>> THEN <<>>
    ELSE EntriesOfLine(logical[1].text, logical[1].number, with_quoted_path) \o
         EntriesOfLines(Tail(logical), with_quoted_path)

\* every double quote of every logical line of the file is closed
QuotesBalanced ==
    \A i \in 1..Len(LogicalLines(file, 1)) :
        Cardinality({j \in 1..Len(LogicalLines(file, 1)[i].text) : LogicalLines(file, 1)[i].text[j] = "\""}) % 2 = 0

\* C20: ParseConfigFile yields for each directive line: LogFormat an access entry, 'named'
\* when a second token without '=' is present and 'default' otherwise; CustomLog an
\* 'inline' access entry with the second argument as format_string exactly when the
\* second argument is quoted in the source; ErrorLogFormat an error entry of type
\* 'default'; ErrorLog, other directives and lines without arguments no entry
C20_EntriesOfDirectiveLines ==
    pc = "conf_parsed" /\ QuotesBalanced => conf_entries = EntriesOfLines(LogicalLines(file, 1), FALSE)

\* the same with CustomLog giving its entry only when the log path is quoted as well
EntriesWhenCustomLogPathQuoted ==
    pc = "conf_parsed" /\ QuotesBalanced => conf_entries = EntriesOfLines(LogicalLines(file, 1), TRUE)

\* ------------------------------------------------------------------------
\* Line continuation: conf files of one to MaxContinuationLines lines, with
\* and without a trailing backslash
\* ------------------------------------------------------------------------
MaxContinuationLines == 3

ContinuationLines ==
    {<<"L", "o", "g", "F", "o", "r", "m", "a", "t", " ", "\"", "%", "h", "\"", " ", "\\">>, <<"L", "o", "g", "F", "o", "r", "m", "a", "t", " ", "\"", "%", "h", "\"", " ", "\\", " ">>, <<"L", "o", "g", "F", "o", "r", "m", "a", "t", " ", "\"", "%", "l", "\"">>, <<"L", "o", "g", "F", "o", "r", "m", "a", "t", " ", "\"", "%", "h", " ", "\\">>,
     <<"%", "u", "\"", " ", "m", " ", "\\">>, <<"n">>, <<"\\">>, <<>>, <<"#", " ", "c", " ", "\\">>}

ContinuationTexts == SeqsUpTo(ContinuationLines, MaxContinuationLines)

InitContinuation ==
    /\ pc = "start"
    /\ raw_mode = FALSE
    /\ parsed_format = NoFormat
    /\ names = <<>>
    /\ columns = <<>>
    /\ file \in ContinuationTexts
    /\ read_pos = 0
    /\ scan_initialized = FALSE
    /\ finished = FALSE
    /\ current_line_number = 0
    /\ rows = <<>>
    /\ line = <<>>
    /\ parsed_values = <<>>
    /\ parse_error = FALSE
    /\ output = <<>>
    /\ threads = <<>>
    /\ true_returns = 0
    /\ late_true = FALSE
    /\ matches = <<>>
    /\ writers = {}
    /\ BufIdle
    /\ written = <<>>
    /\ caches = NoCaches
    /\ format_type = <<>>
    /\ format_str = <<>>
    /\ conf = <<"c">>
    /\ conf_entries = <<>>
    /\ bind_error = FALSE
    /\ bind_path = "none"

NextContinuation == ParseConfigFile

SpecContinuation == InitContinuation /\ [][NextContinuation]_vars

\* s without the whitespace at its end
RECURSIVE TrimRight(_)
TrimRight(s) == IF s # <<>> /\ IsSpace(s[Len(s)]) THEN TrimRight(SubSeq(s, 1, Len(s) - 1)) ELSE s

\* the physical line ends in a backslash, looked for after or before trimming
Continues(text, after_trimming) ==
    LET t == IF after_trimming THEN TrimRight(text) ELSE text IN t # <<>> /\ t[Len(t)] = "\\"

BeforeBackslash(text, after_trimming) ==
    LET t == IF after_trimming THEN TrimRight(text) ELSE text IN SubSeq(t, 1, Len(t) - 1)

\* the logical lines of a conf file from physical line n on, `pending` being the text
\* joined so far and `first` the number of its first physical line (0 when nothing is pending)
RECURSIVE JoinedLines(_, _, _, _, _)
JoinedLines(lines, n, pending, first, after_trimming) ==
    IF n > Len(lines) THEN <<>>
    ELSE LET text == IF first = 0 THEN lines[n] ELSE pending \o <<" ">> \o lines[n]
             number == IF first = 0 THEN n ELSE first
         IN  IF Continues(text, after_trimming)
             THEN JoinedLines(lines, n + 1, BeforeBackslash(text, after_trimming), number, after_trimming)
             ELSE <<[text |-> text, number |-> number]>> \o JoinedLines(lines, n + 1, <<>>, 0, after_trimming)

AllQuotesClosed(logical) ==
    \A i \in 1..Len(logical) : Cardinality({j \in 1..Len(logical[i].text) : logical[i].text[j] = "\""}) % 2 = 0

\* C21: a physical line that ends in a backslash after trimming is joined with the
\* following physical line by a single space, repeatedly for chained continuations; the
\* entry of the joined directive carries the number of its first physical line; nothing
\* of a completed logical line leaks into the next directive
C21_ContinuationJoinsLines ==
    pc = "conf_parsed" /\ AllQuotesClosed(JoinedLines(file, 1, <<>>, 0, TRUE))
                       /\ ~Continues(file[Len(file)], TRUE) =>
        conf_entries = EntriesOfLines(JoinedLines(file, 1, <<>>, 0, TRUE), TRUE)

\* the same for the files in which every backslash that ends a trimmed line is the last
\* character of the line and leaves something before it
ContinuationWhenBackslashIsLast ==
    pc = "conf_parsed" /\ AllQuotesClosed(JoinedLines(file, 1, <<>>, 0, TRUE))
                       /\ (\A i \in 1..Len(file) : Continues(file[i], TRUE) =>
                               Continues(file[i], FALSE) /\ file[i] # <<"\\">>) =>
        conf_entries = EntriesOfLines(JoinedLines(file, 1, <<>>, 0, TRUE), TRUE)

\* ------------------------------------------------------------------------
\* Timestamp groups: formats of one to MaxGroupWords words among %t variants,
\* begin: and end: ones, and %h
\* ------------------------------------------------------------------------
MaxGroupWords == 3

GroupWords == {<<"%", "t">>, <<"%", "{", "s", "e", "c", "}", "t">>, <<"%", "{", "m", "s", "e", "c", "_", "f", "r", "a", "c", "}", "t">>, <<"%", "{", "b", "e", "g", "i", "n", ":", "%", "H", "}", "t">>, <<"%", "{", "e", "n", "d", ":", "%", "H", "}", "t">>, <<"%", "{", "e", "n", "d", ":", "%", "M", "}", "t">>, <<"%", "h">>}

GroupFormats == {Join(ws) : ws \in SeqsUpTo(GroupWords, MaxGroupWords)}

NextGroups == \E f \in GroupFormats, raw \in BOOLEAN, tie_order \in TieOrders : BindReader(f, raw, tie_order)

SpecGroups == Init /\ [][NextGroups]_vars

IsTimestampField(field) == field.directive = <<"%", "t">>

\* field index i (from 0) and the field at j could stand in one run
SameRun(fields, i, j) ==
    /\ j >= 0
    /\ j < Len(fields)
    /\ IsTimestampField(fields[j + 1])
    /\ fields[j + 1].is_end_timestamp = fields[i + 1].is_end_timestamp

\* the group is a maximal run of consecutive %t fields with one is_end_timestamp value
IsMaximalRun(fields, indices) ==
    /\ indices # <<>>
    /\ \A k \in 1..Len(indices) : indices[k] = indices[1] + k - 1 /\ SameRun(fields, indices[1], indices[k])
    /\ ~SameRun(fields, indices[1], indices[1] - 1)
    /\ ~SameRun(fields, indices[1], indices[Len(indices)] + 1)

\* C22: after ResolveColumnNameCollisions every %t field belongs to exactly one timestamp
\* group; each group's field_indices is a maximal run of consecutive %t fields with the
\* same is_end_timestamp; the first field of the run is its only non-skipped member; and
\* every %t field's timestamp_group_id is the index of the group that lists it
C22_TimestampGroupsAreRuns ==
    pc = "bound" =>
        LET fields == parsed_format.fields
            groups == parsed_format.timestamp_groups
            Lists(g, i) == \E k \in 1..Len(groups[g].field_indices) : groups[g].field_indices[k] = i
        IN  /\ \A i \in 0..(Len(fields) - 1) :
                   IF IsTimestampField(fields[i + 1])
                   THEN /\ Cardinality({g \in 1..Len(groups) : Lists(g, i)}) = 1
                        /\ fields[i + 1].timestamp_group_id \in 0..(Len(groups) - 1)
                        /\ Lists(fields[i + 1].timestamp_group_id + 1, i)
                   ELSE \A g \in 1..Len(groups) : ~Lists(g, i)
            /\ \A g \in 1..Len(groups) :
                   /\ IsMaximalRun(fields, groups[g].field_indices)
                   /\ \A k \in 1..Len(groups[g].field_indices) :
                          fields[groups[g].field_indices[k] + 1].should_skip = (k > 1)

C22_Witness ==
    /\ pc = "bound"
    /\ parsed_format.original_format_str = <<"%", "t", " ", "%", "{", "e", "n", "d", ":", "%", "H", "}", "t", " ", "%", "{", "e", "n", "d", ":", "%", "M", "}", "t">>
    /\ Len(parsed_format.timestamp_groups) = 2
    /\ parsed_format.timestamp_groups[2].field_indices = <<1, 2>>

\* ------------------------------------------------------------------------
\* %r variants beside %m, %U, %q, %H: formats of one to MaxSkipWords words
\* ------------------------------------------------------------------------
MaxSkipWords == 3

SkipWords == {<<"\"", "%", "r", "\"">>, <<"\"", "%", ">", "r", "\"">>, <<"%", "m">>, <<"%", ">", "U">>, <<"%", "q">>, <<"%", "H">>}

SkipFormats == {Join(ws) : ws \in SeqsUpTo(SkipWords, MaxSkipWords)}

NextSkips == \E f \in SkipFormats, raw \in BOOLEAN, tie_order \in TieOrders : BindReader(f, raw, tie_order)

SpecSkips == Init /\ [][NextSkips]_vars

\* the format has a field with one of the directives
Present(directives) == \E i \in 1..Len(parsed_format.fields) : parsed_format.fields[i].directive \in directives

\* the flags a %r-variant field of the bound format must carry
FlagsFollowDirectives(field) ==
    /\ field.skip_method = Present({<<"%", "m">>})
    /\ field.skip_path = Present({<<"%", "U">>, <<"%", ">", "U">>, <<"%", "<", "U">>})
    /\ field.skip_query_string = Present({<<"%", "q">>})
    /\ field.skip_protocol = Present({<<"%", "H">>})

\* the names of the sub-columns GenerateSchema emits for field index i (from 0)
SubColumnsOf(i) ==
    {RequestColumns(parsed_format.fields[i + 1])[c].name : c \in 1..Len(RequestColumns(parsed_format.fields[i + 1]))}

NoOverriddenSubColumn(i) ==
    /\ Present({<<"%", "m">>}) => <<"m", "e", "t", "h", "o", "d">> \notin SubColumnsOf(i)
    /\ Present({<<"%", "U">>, <<"%", ">", "U">>, <<"%", "<", "U">>}) => <<"p", "a", "t", "h">> \notin SubColumnsOf(i)
    /\ Present({<<"%", "q">>}) => <<"q", "u", "e", "r", "y", "_", "s", "t", "r", "i", "n", "g">> \notin SubColumnsOf(i)
    /\ Present({<<"%", "H">>}) => <<"p", "r", "o", "t", "o", "c", "o", "l">> \notin SubColumnsOf(i)

RequestFields == {i \in 0..(Len(parsed_format.fields) - 1) : IsRequestLineDirective(parsed_format.fields[i + 1].directive)}

\* C23: in a format with %r variants and %m, a %U variant, %q or %H, each %r-variant field
\* has skip_method, skip_path, skip_query_string, skip_protocol set for the directives
\* present and not set for the absent ones, and no %r field emits an overridden sub-column
C23_EveryRequestFieldSkips ==
    pc = "bound" =>
        \A i \in RequestFields : FlagsFollowDirectives(parsed_format.fields[i + 1]) /\ NoOverriddenSubColumn(i)

\* the same for the last %r-variant field of the format only; the others keep every flag unset
LastRequestFieldSkips ==
    pc = "bound" =>
        \A i \in RequestFields :
            IF \A j \in RequestFields : j <= i
            THEN FlagsFollowDirectives(parsed_format.fields[i + 1]) /\ NoOverriddenSubColumn(i)
            ELSE LET field == parsed_format.fields[i + 1]
                 IN  ~(field.skip_method \/ field.skip_path \/ field.skip_query_string \/ field.skip_protocol)

\* ------------------------------------------------------------------------
\* The unit of a duration, over the formats and lines of SpecDuration
\* ------------------------------------------------------------------------
\* the decimal zeros that turn the unit of a duration field into microseconds
UnitZeros(field, final_and_original_too) ==
    IF field.directive \in {<<"%", "D">>, <<"%", ">", "D">>, <<"%", "<", "D">>} THEN 0
    ELSE IF ~final_and_original_too /\ field.directive # <<"%", "T">> THEN 0
    ELSE IF field.modifier = <<"u", "s">> THEN 0
    ELSE IF field.modifier = <<"m", "s">> THEN 3
    ELSE 6

DurationWrites == {p \in RegularWrites : FieldOf(p).type = "INTERVAL" /\ CaptureOf(p) # <<"-">>}

\* every duration written is the captured integer followed by the zeros of its unit
ScaledByUnit(final_and_original_too) ==
    pc = "parsed" /\ ~parse_error =>
        \A p \in DurationWrites :
            written[p] = Value("INTERVAL", CaptureOf(p) \o [i \in 1..UnitZeros(FieldOf(p), final_and_original_too) |-> "0"])

\* C24: the interval emitted for a duration field is the captured integer times its unit
\* scale in microseconds: 1 for the %D variants and modifier us, 1000 for modifier ms,
\* 1000000 for modifier s or none, for %T, %<T and %>T alike
C24_DurationScaledByUnit == ScaledByUnit(TRUE)

\* the same with %<T and %>T stored unscaled
OnlyBareTScaled == ScaledByUnit(FALSE)

\* ------------------------------------------------------------------------
\* The priorities of the directive catalog, over the formats of SpecCollision
\* ------------------------------------------------------------------------
\* the pairs of catalog directives that std::sort of one bucket may have to order:
\* two of one default column name, or two of dynamic name
SortedTogether(a, b) ==
    /\ a.directive # b.directive
    /\ \/ a.column_name # <<>> /\ a.column_name = b.column_name
       \/ a.directive \in DynamicNameDirectives /\ b.directive \in DynamicNameDirectives

\* the pairs of directives of one class with one priority
TiedPairs ==
    {{a.directive, b.directive} :
        <<a, b>> \in {p \in {directive_definitions[i] : i \in 1..Len(directive_definitions)} \X
                            {directive_definitions[i] : i \in 1..Len(directive_definitions)} :
                         SortedTogether(p[1], p[2]) /\ p[1].collision_priority = p[2].collision_priority}}

\* the bound format does not depend on the order std::sort gives to equal priorities
SortHasNoTies ==
    pc = "bound" =>
        ParseFormatString(parsed_format.original_format_str, "stable") =
        ParseFormatString(parsed_format.original_format_str, "reversed")

\* C25: no two catalog directives of one default column name (request, path, duration,
\* status, server_name, bytes) have the same collision_priority, nor two dynamic-name
\* directives, so the sort by priority in collision resolution never has ties
C25_PrioritiesDistinct == TiedPairs = {} /\ SortHasNoTies

\* the ties of the catalog are those of an original form with its explicit '<' form, of
\* the duration directives of one priority, and of %B with %b; no format with a tie binds
\* differently under the two orders unless it holds two tied directives
TiesOfTheCatalog ==
    /\ TiedPairs = {{<<"%", "r">>, <<"%", "<", "r">>}, {<<"%", "U">>, <<"%", "<", "U">>}, {<<"%", "s">>, <<"%", "<", "s">>}, {<<"%", "B">>, <<"%", "b">>},
                    {<<"%", "D">>, <<"%", "<", "D">>}, {<<"%", "D">>, <<"%", "T">>}, {<<"%", "D">>, <<"%", "<", "T">>}, {<<"%", "<", "D">>, <<"%", "T">>}, {<<"%", "<", "D">>, <<"%", "<", "T">>},
                    {<<"%", "T">>, <<"%", "<", "T">>}, {<<"%", ">", "D">>, <<"%", ">", "T">>}}
    /\ pc = "bound" /\ ~(\E i, j \in 1..Len(parsed_format.fields) :
                             {parsed_format.fields[i].directive, parsed_format.fields[j].directive} \in TiedPairs) =>
           ParseFormatString(parsed_format.original_format_str, "stable") =
           ParseFormatString(parsed_format.original_format_str, "reversed")

\* ------------------------------------------------------------------------
\* Lazy initialization of directive_cache and header_cache under concurrent callers
\* (httpd_log_format_parser.cpp lines 99-259)
\* ------------------------------------------------------------------------
\* the threads that call GetDirectiveDefinition or GetTypedHeaderType
NumCallers == 2

\* the rows of directive_definitions and of typed_header_rules the two loops insert
MaxCacheRows == 2

Caller(at, which, key, directive, next, raced, found) ==
    [pc |-> at, which |-> which, key |-> key, directive |-> directive, next |-> next, raced |-> raced, result |-> found]

IdleCaller == Caller("idle", "none", <<>>, <<>>, 0, FALSE, <<>>)

\* the calls offered: a cached directive, an unknown one, a typed header that applies
\* to the directive and one that does not
CacheCalls ==
    { [which |-> "directive", key |-> <<"%", "a">>, directive |-> <<>>],
      [which |-> "directive", key |-> <<"%", "Z">>, directive |-> <<>>],
      [which |-> "header", key |-> <<"A", "g", "e">>, directive |-> <<"%", "o">>],
      [which |-> "header", key |-> <<"a", "g", "e">>, directive |-> <<"%", "i">>] }

\* lines 226-233: the loops run over the directive rows, then over the header rows
CacheRows == 2 * MaxCacheRows

RowCache(next) == IF next <= MaxCacheRows THEN "directive" ELSE "header"

RowKey(next) ==
    IF next <= MaxCacheRows
    THEN directive_definitions[next].directive
    ELSE typed_header_rules[next - MaxCacheRows].header_name

\* the container a caller is inside of: operator[] of an insertion, or find
Inserting(c) == IF c.pc = "inserting" THEN RowCache(c.next) ELSE "none"

Finding(c) == IF c.pc = "finding" THEN c.which ELSE "none"

\* two accesses to one unordered_map, one of them an insertion, with no lock held
Overlap(a, b) ==
    \/ Inserting(a) # "none" /\ Inserting(a) \in {Inserting(b), Finding(b)}
    \/ Inserting(b) # "none" /\ Inserting(b) \in {Inserting(a), Finding(a)}

\* the callers after t has entered a container: every overlapping access is marked
MarkOverlaps(callers, t) ==
    [u \in DOMAIN callers |->
        IF \E v \in DOMAIN callers : v # u /\ t \in {u, v} /\ Overlap(callers[u], callers[v])
        THEN [callers[u] EXCEPT !.raced = TRUE]
        ELSE callers[u]]

InitCaches ==
    /\ PipelineIdle
    /\ BufIdle
    /\ OptIdle
    /\ written = <<>>
    /\ caches = [NoCaches EXCEPT !.callers = [t \in 1..NumCallers |-> IdleCaller]]

\* lines 239 and 246: a thread enters GetDirectiveDefinition or GetTypedHeaderType
CallLookup(t, call) ==
    /\ caches.callers[t].pc = "idle"
    /\ caches' = [caches EXCEPT !.callers[t] = Caller("called", call.which, call.key, call.directive, 0, FALSE, <<>>)]
    /\ UNCHANGED <<pipeVars, bufVars, optVars, written>>

\* lines 221-223: InitializeCaches reads the plain flag and returns when it is set
LoadCacheInitialized(t) ==
    /\ caches.callers[t].pc = "called"
    /\ caches' = [caches EXCEPT !.callers[t].pc = IF caches.cache_initialized THEN "lookup" ELSE "fill",
                                !.callers[t].next = 1]
    /\ UNCHANGED <<pipeVars, bufVars, optVars, written>>

\* lines 226-233: the thread enters operator[] of the cache for its next row
BeginInsert(t) ==
    /\ caches.callers[t].pc = "fill"
    /\ caches.callers[t].next <= CacheRows
    /\ caches' = [caches EXCEPT !.callers = MarkOverlaps([caches.callers EXCEPT ![t].pc = "inserting"], t)]
    /\ UNCHANGED <<pipeVars, bufVars, optVars, written>>

\* the insertion completes; one that overlapped another access to the same map has no
\* defined effect: the key is stored or it is not
EndInsert(t) ==
    /\ caches.callers[t].pc = "inserting"
    /\ \E stored \in IF caches.callers[t].raced THEN BOOLEAN ELSE {TRUE} :
           \E c \in {caches.callers[t]} :
               caches' = [caches EXCEPT
                   !.directive_cache = IF stored /\ RowCache(c.next) = "directive" THEN @ \cup {RowKey(c.next)} ELSE @,
                   !.header_cache = IF stored /\ RowCache(c.next) = "header" THEN @ \cup {RowKey(c.next)} ELSE @,
                   !.callers[t] = [c EXCEPT !.pc = "fill", !.next = c.next + 1, !.raced = FALSE]]
    /\ UNCHANGED <<pipeVars, bufVars, optVars, written>>

\* line 235: cache_initialized = true
StoreCacheInitialized(t) ==
    /\ caches.callers[t].pc = "fill"
    /\ caches.callers[t].next > CacheRows
    /\ caches' = [caches EXCEPT !.cache_initialized = TRUE, !.callers[t].pc = "lookup"]
    /\ UNCHANGED <<pipeVars, bufVars, optVars, written>>

\* lines 240 and 252: the thread enters find of its cache
BeginFind(t) ==
    /\ caches.callers[t].pc = "lookup"
    /\ caches' = [caches EXCEPT !.callers = MarkOverlaps([caches.callers EXCEPT ![t].pc = "finding"], t)]
    /\ UNCHANGED <<pipeVars, bufVars, optVars, written>>

\* lines 240-241: what GetDirectiveDefinition returns from the cache as it stands
FoundDirective(cache, key) == IF key \in cache THEN GetDirectiveDefinition(key) ELSE NoDef

\* lines 248-258: what GetTypedHeaderType returns from the cache as it stands
FoundHeaderType(cache, header_name, directive) ==
    IF ToLower(header_name) \in cache THEN GetTypedHeaderType(header_name, directive) ELSE "INVALID"

\* find returns; a find that overlapped an insertion into its map has no defined result
EndFind(t) ==
    /\ caches.callers[t].pc = "finding"
    /\ \E c \in {caches.callers[t]} :
           \E found \in {IF c.which = "directive"
                         THEN FoundDirective(caches.directive_cache, c.key)
                         ELSE FoundHeaderType(caches.header_cache, c.key, c.directive)} :
               \E r \in IF c.raced THEN {found, Garbage} ELSE {found} :
                   caches' = [caches EXCEPT !.callers[t] = [c EXCEPT !.pc = "done", !.result = r]]
    /\ UNCHANGED <<pipeVars, bufVars, optVars, written>>

NextCaches ==
    \/ \E t \in 1..NumCallers : \E call \in CacheCalls : CallLookup(t, call)
    \/ \E t \in 1..NumCallers : LoadCacheInitialized(t)
    \/ \E t \in 1..NumCallers : BeginInsert(t)
    \/ \E t \in 1..NumCallers : EndInsert(t)
    \/ \E t \in 1..NumCallers : StoreCacheInitialized(t)
    \/ \E t \in 1..NumCallers : BeginFind(t)
    \/ \E t \in 1..NumCallers : EndFind(t)

SpecCaches == InitCaches /\ [][NextCaches]_vars

\* the result of the call after a single-threaded initialization
SingleThreaded(c) ==
    IF c.which = "directive" THEN GetDirectiveDefinition(c.key) ELSE GetTypedHeaderType(c.key, c.directive)

\* the callers that are inside the container `cache` with an insertion / with a find
WritersOf(cache) == {t \in DOMAIN caches.callers : Inserting(caches.callers[t]) = cache}

ReadersOf(cache) == {t \in DOMAIN caches.callers : Finding(caches.callers[t]) = cache}

\* the callers that found cache_initialized false and took the filling branch
Fillers == {t \in DOMAIN caches.callers : caches.callers[t].pc \in {"fill", "inserting"}}

\* C26: under concurrent first calls no thread reads a cache while another thread is
\* writing it, no two threads write one cache at the same time, and every lookup returns
\* what it returns after a single-threaded initialization
C26_CacheInitializationSafe ==
    /\ \A cache \in {"directive", "header"} :
           /\ Cardinality(WritersOf(cache)) <= 1
           /\ WritersOf(cache) # {} => ReadersOf(cache) = {}
    /\ \A t \in DOMAIN caches.callers :
           caches.callers[t].pc = "done" => caches.callers[t].result = SingleThreaded(caches.callers[t])

\* the callers that have read cache_initialized as false and run the two loops
Initializers ==
    {t \in DOMAIN caches.callers : caches.callers[t].pc \in {"fill", "inserting"} \/ caches.callers[t].next > 1}

\* the initialization is safe as long as one thread only found the flag unset
SafeWithOneInitializer == Cardinality(Initializers) <= 1 => C26_CacheInitializationSafe

\* two threads are inside operator[] of directive_cache at once
TwoWritersOfDirectiveCache == Cardinality(WritersOf("directive")) = 2

\* ------------------------------------------------------------------------
\* The two walks over the format string: ParseFormatString (lines 398-512) and
\* GenerateRegexPattern (lines 553-657)
\* ------------------------------------------------------------------------
MaxLockstepWords == 3

\* plain and modified directives, the trailer forms, a "%{" that is never closed, and
\* a literal word
LockstepWords == {<<"%", "h">>, <<"%", ">", "s">>, <<"%", "{", "X", "}", "i">>, <<"%", "{", "X", "}", "^", "t", "i">>, <<"%", "{", "X", "}", "^", "t", "o">>, <<"%", "{">>, <<"x">>}

LockstepFormats == {Join(ws) : ws \in SeqsUpTo(LockstepWords, MaxLockstepWords)}

NextLockstep == \E f \in LockstepFormats, raw \in BOOLEAN, tie_order \in TieOrders : BindReader(f, raw, tie_order)

SpecLockstep == Init /\ [][NextLockstep]_vars

\* the characters [first, after) a walk consumed for one field
Span(first, after) == [first |-> first, after |-> after]

\* lines 398-512: the spans ParseFormatString consumes, one per field it appends
RECURSIVE TokenSpans(_, _, _)
TokenSpans(s, pos, spans) ==
    IF pos >= Len(s) THEN spans
    ELSE IF At(s, pos) = "\"" THEN TokenSpans(s, pos + 1, spans)
    ELSE IF At(s, pos) = "%" /\ pos + 1 < Len(s)
    THEN \* the token is bound once
         CHOOSE r \in {TokenSpans(s, d.pos, IF d.field THEN Append(spans, Span(pos, d.pos)) ELSE spans) :
                          d \in {NextDirective(s, pos)}} : TRUE
    ELSE TokenSpans(s, pos + 1, spans)

\* lines 553-657: the spans GenerateRegexPattern skips, one per field it emits
RECURSIVE RegexSpans(_, _, _, _, _)
RegexSpans(original_format_str, fields, pos, field_idx, spans) ==
    IF pos >= Len(original_format_str) THEN spans
    ELSE IF At(original_format_str, pos) = "\"" THEN RegexSpans(original_format_str, fields, pos + 1, field_idx, spans)
    ELSE IF At(original_format_str, pos) = "%" /\ field_idx < Len(fields)
    THEN CHOOSE r \in {RegexSpans(original_format_str, fields, after, field_idx + 1, Append(spans, Span(pos, after))) :
                          after \in {SkipDirective(original_format_str, pos, fields[field_idx + 1])}} : TRUE
    ELSE IF At(original_format_str, pos) \in {" ", "\t"}
    THEN RegexSpans(original_format_str, fields, SkipBlanks(original_format_str, pos + 1), field_idx, spans)
    ELSE RegexSpans(original_format_str, fields, pos + 1, field_idx, spans)

TokenSpansOfFormat == TokenSpans(parsed_format.original_format_str, 0, <<>>)

RegexSpansOfFormat == RegexSpans(parsed_format.original_format_str, parsed_format.fields, 0, 0, <<>>)

\* C27: for every bound format GenerateRegexPattern consumes, for the i-th '%' it treats
\* as a directive, exactly the characters ParseFormatString consumed for field i
C27_RegexWalksInLockstep == pc = "bound" => RegexSpansOfFormat = TokenSpansOfFormat

\* the format has a directive of the form %{X}^ti or %{X}^to
HasTrailerForm ==
    \E i \in 1..Len(parsed_format.fields) : Len(parsed_format.fields[i].directive) = 4

\* the format has a "%{" the tokenizer skipped for want of a closing brace
HasUnclosedBrace ==
    \E p \in 0..(Len(parsed_format.original_format_str) - 2) :
        /\ SubStr(parsed_format.original_format_str, p, 2) = <<"%", "{">>
        /\ ~NextDirective(parsed_format.original_format_str, p).field

\* without a trailer form and without an unclosed "%{" the two walks agree
LockstepOfPlainFormats ==
    pc = "bound" /\ ~HasTrailerForm /\ ~HasUnclosedBrace => RegexSpansOfFormat = TokenSpansOfFormat

\* ------------------------------------------------------------------------
\* Successive Scan calls over files longer than one batch
\* (httpd_log_file_reader.cpp lines 369-419)
\* ------------------------------------------------------------------------
MaxBatchLines == 5

BatchFormats == {<<"%", "h">>, <<"%", "h", " ", "%", "h">>}

BatchFiles == SeqsUpTo(FileLines, MaxBatchLines)

NextBatches ==
    \/ \E f \in BatchFormats, raw \in BOOLEAN, tie_order \in TieOrders : BindReader(f, raw, tie_order)
    \/ \E content \in BatchFiles : CreateReader(content)
    \/ TryInitializeScan
    \/ Scan

SpecBatches == Init /\ [][NextBatches]_vars

\* lines 391-403: line i of the file is one Scan emits a row for
EmitsRow(i) == file[i] # <<>> /\ (raw_mode \/ ParseLogLine(file[i], parsed_format) # <<>>)

\* the rows emitted so far are those of the lines read so far, each once, in file order
RowsFollowFile ==
    /\ \A k \in 1..(Len(rows) - 1) : rows[k].source < rows[k + 1].source
    /\ {rows[k].source : k \in 1..Len(rows)} = {i \in 1..read_pos : EmitsRow(i)}

\* a Scan call on a finished reader emits no row, reads nothing and leaves the flag set
FinishedStays == finished => finished' /\ rows' = rows /\ read_pos' = read_pos

\* C28: over successive Scan calls the rows appear in the order of their lines, no line
\* is emitted twice or lost at a batch boundary; finished is set only once the file is
\* read to its end, is never cleared, and later Scan calls emit no row and read nothing
C28_ScanBatchesInOrder ==
    /\ [](pc \in {"scanning", "done"} => RowsFollowFile /\ (finished => read_pos = Len(file)))
    /\ [][FinishedStays]_vars

\* a finished scan whose rows came from more than one batch
C28_Witness == pc = "done" /\ finished /\ Len(rows) > BATCH_SIZE

\* ------------------------------------------------------------------------
\* The indices the extractors use (httpd_log_file_reader.cpp lines 428-590,
\* httpd_log_table_function.cpp lines 548-818)
\* ------------------------------------------------------------------------
\* every index into parsed_values that WriteColumnValue reads for some column, or the
\* table Function for its row, is below the number of captures
ReadsWithinCaptures ==
    /\ \A p \in 0..(Len(columns) - 1) :
           ~OutOfBounds(WriteColumnValue(parsed_format, raw_mode, p, FALSE), parsed_values)
    /\ \A cell \in {FunctionRow(parsed_format, raw_mode, FALSE)[k] :
                       k \in 1..Len(FunctionRow(parsed_format, raw_mode, FALSE))} :
           ~OutOfBounds(cell, parsed_values)

\* lines 444-447: every timestamp_group_id used as an index names an existing group
GroupIdsWithinGroups ==
    \A i \in 1..Len(parsed_format.fields) :
        parsed_format.fields[i].timestamp_group_id < Len(parsed_format.timestamp_groups)

\* C29: on a line that matches the format every index the extractors use into the
\* captured values is smaller than the number of captures, and every timestamp_group_id
\* used as an index is smaller than the number of timestamp groups
C29_IndicesWithinBounds == Extracting => ReadsWithinCaptures /\ GroupIdsWithinGroups

\* a skipped field that GenerateRegexPattern emits as a non-capturing group
SkippedWithoutCapture(field) == field.should_skip /\ (field.is_quoted \/ field.directive # <<"%", "t">>)

\* the group ids are always within bounds, and so are the reads when no field of the
\* format is skipped without a capture
IndicesWithinBoundsWhenAllCaptured ==
    Extracting =>
        /\ GroupIdsWithinGroups
        /\ (\A i \in 1..Len(parsed_format.fields) : ~SkippedWithoutCapture(parsed_format.fields[i]))
               => ReadsWithinCaptures

\* ------------------------------------------------------------------------
\* The buffered reader over a FileHandle whose Read may return fewer bytes than
\* requested while data remains (httpd_log_buffered_reader.cpp lines 5-56)
\* ------------------------------------------------------------------------
\* the Read calls one ReadLine call can make
MaxReads == 5

\* the bytes successive Read calls are willing to return, each at least one
Grants == [1..MaxReads -> 1..MaxBufferSize]

\* FileHandle::Read(buf, n) returning at most `grant` bytes: nothing at the end of the
\* file, and at least one byte before it
ReadSome(h, n, grant) == SubStr(h.data, h.pos, Min(n, grant))

\* lines 11-23: HttpdLogBufferedReader::RefillBuffer over such a Read
RefillBufferSome(r, cap, grant) ==
    IF r.eof_reached
    THEN [r EXCEPT !.buffer_size = 0]
    ELSE LET got == ReadSome(r.file_handle, cap, grant)
         IN  BufferedReader([r.file_handle EXCEPT !.pos = @ + Len(got)],
                            got \o SubStrFrom(r.buffer, Len(got)),
                            0, Len(got), Len(got) < cap)

\* lines 25-52: the loop of ReadLine; grants[k] bounds the k-th Read still to come
RECURSIVE ReadLineLoopSome(_, _, _, _, _)
ReadLineLoopSome(r, cap, acc, grants, k) ==
    IF r.buffer_offset < r.buffer_size
    THEN LET c == r.buffer[r.buffer_offset + 1]
             r1 == [r EXCEPT !.buffer_offset = @ + 1]
         IN  IF c = LF
             THEN ReadLineResult(TRUE,
                                 IF acc # <<>> /\ acc[Len(acc)] = CR THEN SubSeq(acc, 1, Len(acc) - 1) ELSE acc,
                                 r1)
             ELSE ReadLineLoopSome(r1, cap, Append(acc, c), grants, k)
    ELSE IF r.buffer_size = 0 \/ (r.eof_reached /\ r.buffer_offset >= r.buffer_size)
         THEN ReadLineResult(acc # <<>>, acc, r)
         ELSE ReadLineLoopSome(RefillBufferSome(r, cap, IF k <= MaxReads THEN grants[k] ELSE cap), cap, acc, grants, k + 1)

\* lines 5-9: the constructor, whose first Read may be short as well
InitShortReads ==
    /\ PipelineIdle
    /\ BUFFER_SIZE \in 1..MaxBufferSize
    /\ \E content \in Contents, grant \in 1..MaxBufferSize :
         \E r \in {RefillBufferSome(BufferedReader(FileHandle(content, 0), [i \in 1..BUFFER_SIZE |-> NUL], 0, 0, FALSE), BUFFER_SIZE, grant)} :
            /\ file_handle = r.file_handle
            /\ buffer = r.buffer
            /\ buffer_offset = r.buffer_offset
            /\ buffer_size = r.buffer_size
            /\ eof_reached = r.eof_reached
    /\ result = <<>>
    /\ returned = "none"
    /\ lines_read = <<>>
    /\ OptIdle
    /\ written = <<>>
    /\ caches = NoCaches

\* HttpdLogBufferedReader::ReadLine, one call
ReadLineSome ==
    /\ \E grants \in Grants :
         \E out \in {ReadLineLoopSome(ThisReader, BUFFER_SIZE, <<>>, grants, 1)} :
             /\ file_handle' = out.reader.file_handle
             /\ buffer' = out.reader.buffer
             /\ buffer_offset' = out.reader.buffer_offset
             /\ buffer_size' = out.reader.buffer_size
             /\ eof_reached' = out.reader.eof_reached
             /\ result' = out.result
             /\ returned' = IF out.ok THEN "true" ELSE "false"
             /\ lines_read' = IF out.ok THEN Append(lines_read, out.result) ELSE lines_read
    /\ UNCHANGED <<pipeVars, BUFFER_SIZE, optVars, written, caches>>

NextShortReads == ReadLineSome

SpecShortReads == InitShortReads /\ [][NextShortReads]_vars

\* the caller's loop calls ReadLine until it returns false
FairShortReads == SpecShortReads /\ WF_vars(ReadLineSome)

\* eof_reached is set only when the file has no more bytes
EofOnlyAtEnd == eof_reached => file_handle.pos = Len(file_handle.data)

\* when ReadLine returns false every line of the file has been returned
NoByteDropped == returned = "false" => lines_read = SplitLines(file_handle.data)

\* after a false return every later call returns false with an empty result
FalseStays == returned = "false" => returned' = "false" /\ result' = <<>>

\* C30: eof_reached is set only when the file has no more bytes, so no byte is dropped
\* even when Read returns fewer bytes than requested while data remains; and once
\* ReadLine has returned false every later call returns false with an empty result
C30_EofOnlyAtEndOfFile == [](EofOnlyAtEnd /\ NoByteDropped) /\ [][FalseStays]_vars

\* a false return stays, and a loop of ReadLine calls reaches it
FalseReturnStays == [][FalseStays]_vars

ReadLineLoopTerminates == <>[](returned = "false")

\* with a Read that returns fewer bytes than requested only at the end of the file
\* (SpecReader) the flag is set at the end only and every line is returned
FullReadsKeepEveryByte == EofOnlyAtEnd /\ NoByteDropped
====
